---- MODULE Spec2Model ----
(***************************************************************************)
(* A model of cink: the classifying lexer (lexer/lexer.go), the mode       *)
(* detector, the escape-aware segmenter and the renderer                   *)
(* (highlighter/highlighter.go, highlighter/theme.go).                     *)
(*                                                                         *)
(* A Go string is a TLA+ string; a byte is a string of length one.  Go's   *)
(* 0-based s[i] is At(s, i) and s[a:b] is Slice(s, a, b).                  *)
(***************************************************************************)
EXTENDS Integers, Sequences, FiniteSets, TLC

(***************************************************************************)
(* Bytes                                                                   *)
(***************************************************************************)

\* '\033', the escape-introducer byte 0x1b (the literal holds that one byte).
escapeChar == ""

csiBracket == "["

\* The printable ASCII bytes 0x20..0x5F and 0x61..0x7E in code order (0x60 cannot
\* be written in a string literal and is left out of the modelled alphabet).
PrintableLow ==
    " !\"#$%&'(" \o ")*+,-./0123456789:;<=>?@ABCDEFGHIJKLMNOPQRSTUVWXYZ[\\]^_"

PrintableHigh == "abcdefghijklmnopqrstuvwxyz{|}~"

PrintableBytes ==
    {SubSeq(PrintableLow, i, i) : i \in 1..Len(PrintableLow)}
        \cup {SubSeq(PrintableHigh, i, i) : i \in 1..Len(PrintableHigh)}

\* The numeric value of a byte, for the byte-range tests of the source.
ByteTable ==
    [c \in PrintableBytes \cup {escapeChar, "\t", "\n", "\f", "\r"} |->
        CASE c = escapeChar -> 27
          [] c = "\t" -> 9
          [] c = "\n" -> 10
          [] c = "\f" -> 12
          [] c = "\r" -> 13
          [] \E i \in 1..Len(PrintableLow) : SubSeq(PrintableLow, i, i) = c ->
                31 + (CHOOSE i \in 1..Len(PrintableLow) : SubSeq(PrintableLow, i, i) = c)
          [] OTHER ->
                96 + (CHOOSE i \in 1..Len(PrintableHigh) : SubSeq(PrintableHigh, i, i) = c)]

ByteCode(c) == ByteTable[c]

At(s, i) == SubSeq(s, i + 1, i + 1)

Slice(s, a, b) == SubSeq(s, a + 1, b)

Digits == {"0", "1", "2", "3", "4", "5", "6", "7", "8", "9"}

UpperLetters == {SubSeq(PrintableLow, i, i) : i \in 34..59}

LowerLetters == {SubSeq(PrintableHigh, i, i) : i \in 1..26}

HexDigits == Digits \cup {"a", "b", "c", "d", "e", "f", "A", "B", "C", "D", "E", "F"}

\* regexp \w: [0-9A-Za-z_]
WordBytes == Digits \cup UpperLetters \cup LowerLetters \cup {"_"}

\* regexp \s: [\t\n\f\r ]
SpaceBytes == {" ", "\t", "\n", "\f", "\r"}

\* Every byte of s[from:] .. is in set cs.
AllIn(s, cs) == \A i \in 1..Len(s) : SubSeq(s, i, i) \in cs

\* Length of the longest prefix of s[i:] whose bytes are all in cs.
RECURSIVE RunLen(_, _, _)
RunLen(s, i, cs) ==
    IF i < Len(s) /\ At(s, i) \in cs THEN 1 + RunLen(s, i + 1, cs) ELSE 0

LowerByte(c) ==
    IF c \in UpperLetters THEN SubSeq(PrintableHigh, ByteCode(c) - 64, ByteCode(c) - 64) ELSE c

RECURSIVE ToLower(_)
ToLower(s) ==
    IF s = "" THEN ""
    ELSE IF Len(s) = 1 THEN LowerByte(s)
    ELSE ToLower(Slice(s, 0, Len(s) \div 2)) \o ToLower(Slice(s, Len(s) \div 2, Len(s)))

Contains(s, sub) ==
    \E i \in 0..(Len(s) - Len(sub)) : Slice(s, i, i + Len(sub)) = sub

HasPrefix(s, p) == Len(s) >= Len(p) /\ Slice(s, 0, Len(p)) = p

HasSuffix(s, p) == Len(s) >= Len(p) /\ Slice(s, Len(s) - Len(p), Len(s)) = p

\* strings.TrimSpace on ASCII input: leading and trailing white space removed.
TrimSpace(s) ==
    LET lead == RunLen(s, 0, SpaceBytes)
        last == IF lead = Len(s) THEN lead
                ELSE CHOOSE j \in (lead + 1)..Len(s) :
                        /\ At(s, j - 1) \notin SpaceBytes
                        /\ \A k \in j..(Len(s) - 1) : At(s, k) \in SpaceBytes
    IN  Slice(s, lead, last)

\* Parts of s between occurrences of the byte sep (every part, empty ones too).
RECURSIVE SplitFrom(_, _, _, _)
SplitFrom(s, sep, start, i) ==
    IF i >= Len(s) THEN <<Slice(s, start, Len(s))>>
    ELSE IF At(s, i) = sep
         THEN <<Slice(s, start, i)>> \o SplitFrom(s, sep, i + 1, i + 1)
         ELSE SplitFrom(s, sep, start, i + 1)

Split(s, sep) == SplitFrom(s, sep, 0, 0)

\* strconv.Itoa for n >= 0.
RECURSIVE Itoa(_)
Itoa(n) ==
    IF n < 10 THEN SubSeq("0123456789", n + 1, n + 1)
    ELSE Itoa(n \div 10) \o SubSeq("0123456789", (n % 10) + 1, (n % 10) + 1)

(***************************************************************************)
(* Pattern tables (lexer/lexer.go)                                         *)
(***************************************************************************)

parseModeDetectionSampleSize == 500

commands ==
    {"interface", "router", "ip", "ipv6", "show", "configure", "hostname", "username",
     "enable", "service", "line", "logging", "ntp", "snmp-server", "crypto", "aaa",
     "spanning-tree", "vlan", "banner", "shutdown", "write", "copy", "reload",
     "ping", "traceroute", "clock", "boot", "archive", "errdisable", "default-gateway",
     "do", "exit", "end"}

sections ==
    {"interface", "router", "line", "access-list", "route-map", "prefix-list",
     "class-map", "policy-map", "crypto", "vlan", "redundancy", "controller",
     "ip access-list", "key", "track", "monitor", "event", "applet"}

protocols ==
    {"ospf", "bgp", "eigrp", "rip", "isis", "mpls", "hsrp", "vrrp", "stp", "rstp",
     "lacp", "dot1q", "ipsec", "gre", "tcp", "udp", "icmp", "ssh", "dhcp", "bfd",
     "cdp", "lldp", "evpn", "vxlan", "isakmp", "nhrp", "pim", "igmp", "msdp", "lisp",
     "omp", "snmp", "radius", "tacacs", "tacacs+", "telnet", "ftp", "tftp", "http",
     "https", "ntp", "dns", "syslog", "netflow", "sflow", "ipfix"}

actions ==
    {"permit", "deny", "log", "log-input", "established", "match", "set", "remark",
     "evaluate", "reflect"}

operators == {"eq", "gt", "lt", "neq", "range", "ge", "le", "any", "host"}

keywords ==
    {"description", "address", "switchport", "speed", "duplex", "mtu", "bandwidth",
     "encapsulation", "channel-group", "channel-protocol", "standby", "ip address",
     "no-autostate", "autostate",
     "network", "neighbor", "redistribute", "area", "remote-as", "update-source",
     "route-map", "access-group", "nat", "inside", "outside", "overload",
     "default-information", "originate", "summary-address", "passive-interface",
     "distance", "metric", "weight", "local-preference", "next-hop-self",
     "soft-reconfiguration", "inbound", "prefix-list", "distribute-list",
     "maximum-paths", "auto-summary", "synchronization", "log-neighbor-changes",
     "address-family", "unicast", "multicast", "vpnv4", "vpnv6",
     "access-class", "transport", "input", "output", "login", "password", "secret",
     "privilege", "authentication", "authorization", "accounting", "group", "method",
     "local",
     "version", "source", "trap", "community", "location", "contact", "default",
     "timeout", "exec-timeout", "mask", "wildcard", "inverse-mask",
     "mode", "priority", "vlan", "portfast", "bpduguard", "bpdufilter", "guard", "root",
     "name", "state", "active", "suspend",
     "class", "police", "shape", "queue", "dscp", "cos", "service-policy", "policy-map",
     "new-model", "server", "key",
     "trunk", "native", "allowed", "tagging", "nonegotiate", "negotiation", "auto",
     "half", "flow-control", "send", "both", "storm-control", "level"}

valueKeywords == {"description", "hostname", "banner", "remark"}

statesGood ==
    {"up", "connected", "established", "full", "enabled", "active", "forwarding", "ok",
     "online", "running", "ready", "complete"}

statesGoodCompound == {"up/up"}

statesBad ==
    {"down", "notconnect", "err-disabled", "disabled", "failed", "idle", "connect",
     "opensent", "openconfirm", "error", "offline", "unreachable"}

statesBadCompound == {"down/down", "administratively"}

statesWarning ==
    {"init", "2way", "exstart", "exchange", "loading", "attempt", "flapping", "pending",
     "waiting", "starting", "stopping"}

statesNeutral == {"inactive", "standby", "backup", "suspended", "n/a", "none"}

columnHeaders ==
    {"interface", "status", "protocol", "address", "admin", "link", "speed", "type",
     "duplex", "neighbor", "peer", "state", "as", "inpkt", "outpkt", "uptime", "dead",
     "pri", "mtu", "metric", "local", "remote", "outq", "up/dn", "flaps", "prefixes",
     "paths", "vlan", "description"}

statusSymbols == {"*", "+", "-", ">", "B", "O", "I", "S", "L", "D", "C", "R"}

ConfigIndicators ==
    <<"hostname ", "interface ", "router ", "ip address ", "switchport ", "access-list ",
      "no ", "line vty", "line con", "service ", "enable ", "username ", "ip route ",
      "snmp-server ", "logging ", "ntp ", "crypto ", "aaa ", "spanning-tree ", "vlan ",
      "banner ", "ip access-list ">>

ShowIndicators ==
    <<"line protocol", "up/up", "down/down", "notconnect", "err-disabled", "connected",
      "bgp summary", "ospf neighbor", "show ", "last input", "last output", "5 minute",
      "input rate", "output rate", "show version", "cisco ios">>

ciscoSpecificKeywords ==
    <<"switchport mode", "ip address ", "ip route ", "router ospf", "router bgp",
      "router eigrp", "transport input", "exec-timeout", "channel-group",
      "spanning-tree portfast">>

(***************************************************************************)
(* Regular expressions (lexer/lexer.go), each as the set of words it       *)
(* matches.                                                                *)
(***************************************************************************)

\* \d{lo,hi} over the whole of s
DigitsOfLen(s, lo, hi) == Len(s) >= lo /\ Len(s) <= hi /\ AllIn(s, Digits)

\* \d+ over the whole of s
DigitRun(s) == s # "" /\ AllIn(s, Digits)

\* [0-9a-fA-F]{lo,hi} over the whole of s
HexOfLen(s, lo, hi) == Len(s) >= lo /\ Len(s) <= hi /\ AllIn(s, HexDigits)

\* \d+(\.\d+)? over the whole of s
Decimal(s) ==
    LET p == Split(s, ".")
    IN  Len(p) \in {1, 2} /\ \A i \in 1..Len(p) : DigitRun(p[i])

\* The interface family names of interfacePattern, case-folded by (?i).
interfacePrefixes ==
    {"gigabitethernet", "gi", "fastethernet", "fa", "tengigabitethernet", "tengige", "te",
     "twentyfivegige", "twentyfivegigabitethernet", "fortygigabitethernet", "fo",
     "hundredgige", "hu", "ethernet", "eth", "loopback", "lo", "vlan", "vl",
     "port-channel", "po", "tunnel", "tu", "serial", "se", "null", "bdi", "mgmt", "nve",
     "dialer", "di", "virtual-template", "vt", "virtual-access", "va", "multilink", "mu",
     "atm", "cellular", "async"}

\* \d+(/\d+)*(\.\d+)? over the whole of s
InterfaceNumbering(s) ==
    LET p == Split(s, ".")
        q == Split(p[1], "/")
    IN  /\ Len(p) \in {1, 2}
        /\ \A i \in 1..Len(q) : DigitRun(q[i])
        /\ Len(p) = 2 => DigitRun(p[2])

interfacePattern(word) ==
    LET lower == ToLower(word)
    IN  \E p \in interfacePrefixes :
            /\ HasPrefix(lower, p)
            /\ InterfaceNumbering(Slice(lower, Len(p), Len(lower)))

ipv4Pattern(word) ==
    LET p == Split(word, ".")
    IN  Len(p) = 4 /\ \A i \in 1..4 : DigitsOfLen(p[i], 1, 3)

ipv4PrefixPattern(word) ==
    LET p == Split(word, "/")
    IN  Len(p) = 2 /\ ipv4Pattern(p[1]) /\ DigitsOfLen(p[2], 1, 2)

ipv6Pattern(word) ==
    LET p == Split(word, ":")
        n == Len(p)
    IN  \/ n >= 3 /\ n <= 8 /\ \A i \in 1..n : HexOfLen(p[i], 0, 4)
        \/ /\ n >= 3
           /\ p[1] = "" /\ p[2] = ""
           /\ \A i \in 3..(n - 1) : HexOfLen(p[i], 1, 4)
           /\ HexOfLen(p[n], 0, 4)
        \/ /\ n >= 3
           /\ HexOfLen(p[1], 1, 4) /\ p[2] = ""
           /\ \A i \in 3..(n - 1) : HexOfLen(p[i], 1, 4)
           /\ HexOfLen(p[n], 0, 4)

ipv6PrefixPattern(word) ==
    LET p == Split(word, "/")
    IN  Len(p) = 2 /\ ipv6Pattern(p[1]) /\ DigitsOfLen(p[2], 1, 3)

macPatternCisco(word) ==
    LET p == Split(word, ".")
    IN  Len(p) = 3 /\ \A i \in 1..3 : HexOfLen(p[i], 4, 4)

macPatternColon(word) ==
    LET p == Split(word, ":")
    IN  Len(p) = 6 /\ \A i \in 1..6 : HexOfLen(p[i], 2, 2)

communityPattern(word) ==
    LET p == Split(word, ":")
    IN  Len(p) = 2 /\ DigitRun(p[1]) /\ DigitRun(p[2])

asnPattern(word) ==
    /\ Len(word) >= 3
    /\ At(word, 0) \in {"A", "a"}
    /\ At(word, 1) \in {"S", "s"}
    /\ DigitRun(Slice(word, 2, Len(word)))

\* (\d+[wdhms])+ over the whole of s
RECURSIVE DurationUnits(_)
DurationUnits(s) ==
    LET d == RunLen(s, 0, Digits)
    IN  /\ d >= 1
        /\ d < Len(s)
        /\ At(s, d) \in {"w", "d", "h", "m", "s"}
        /\ (d + 1 = Len(s) \/ DurationUnits(Slice(s, d + 1, Len(s))))

timeDurationPattern(word) ==
    \/ DurationUnits(word)
    \/ LET p == Split(word, ":")
       IN  /\ Len(p) \in {2, 3}
           /\ DigitRun(p[1])
           /\ \A i \in 2..Len(p) : DigitsOfLen(p[i], 2, 2)

percentagePattern(word) ==
    /\ HasSuffix(word, "%")
    /\ Decimal(Slice(word, 0, Len(word) - 1))

byteSizePattern(word) ==
    LET n == Len(word)
        m == IF n >= 1 /\ At(word, n - 1) \in {"B", "b"} THEN n - 1 ELSE n
    IN  /\ m >= 1
        /\ At(word, m - 1) \in {"K", "M", "G", "T", "P"}
        /\ Decimal(Slice(word, 0, m - 1))

routeProtocolNames ==
    {"BGP", "OSPF", "EIGRP", "RIP", "ISIS", "Static", "Direct", "Local", "Connected",
     "Aggregate"}

routeProtocolPattern(word) ==
    /\ Len(word) >= 2
    /\ At(word, 0) = "[" /\ At(word, Len(word) - 1) = "]"
    /\ LET p == Split(Slice(word, 1, Len(word) - 1), "/")
       IN  Len(p) = 2 /\ p[1] \in routeProtocolNames /\ DigitRun(p[2])

\* tabularPattern \w+\s{2,}\w+\s{2,}\w+ anywhere in s, as a scan.  phase: 0 no word
\* yet, 1 in the first word, 2 in the gap after it, 3 in the middle word, 4 in the
\* gap after the middle word; gap counts the white space of the current gap.
RECURSIVE TabularScan(_, _, _, _)
TabularScan(s, i, phase, gap) ==
    IF i >= Len(s) THEN FALSE
    ELSE LET c == At(s, i)
         IN  IF c \in WordBytes
             THEN IF phase = 4 /\ gap >= 2 THEN TRUE
                  ELSE IF phase = 2 /\ gap >= 2 THEN TabularScan(s, i + 1, 3, 0)
                  ELSE IF phase = 3 THEN TabularScan(s, i + 1, 3, 0)
                  ELSE TabularScan(s, i + 1, 1, 0)
             ELSE IF c \in SpaceBytes
             THEN IF phase = 1 THEN TabularScan(s, i + 1, 2, 1)
                  ELSE IF phase = 3 THEN TabularScan(s, i + 1, 4, 1)
                  ELSE IF phase \in {2, 4} THEN TabularScan(s, i + 1, phase, gap + 1)
                  ELSE TabularScan(s, i + 1, 0, 0)
             ELSE TabularScan(s, i + 1, 0, 0)

tabularPattern(s) == TabularScan(s, 0, 0, 0)

\* [\s\x00-\x1f]: white space and control bytes, the leading group of promptPattern
PromptLeadBytes == {c \in DOMAIN ByteTable : c \in SpaceBytes \/ ByteCode(c) <= 31}

\* promptPattern ^([\s\x00-\x1f]*)([\w.-]+)(\([\w-]+\))?([>#])\s*(.*?)\n?$ with the
\* submatches of FindStringSubmatch: ok is FALSE when the input does not match; m[k]
\* is group k ("" for a group that did not take part).  The byte classes of
\* neighbouring groups are disjoint, so each greedy group is a maximal run; "." does
\* not match a newline and "$" is the end of the text.
promptPattern(input) ==
    LET n == Len(input)
        a == RunLen(input, 0, PromptLeadBytes)
        b == a + RunLen(input, a, WordBytes \cup {".", "-"})
        k == IF b < n /\ At(input, b) = "(" THEN RunLen(input, b + 1, WordBytes \cup {"-"})
             ELSE 0
        modeOk == k >= 1 /\ b + 1 + k < n /\ At(input, b + 1 + k) = ")"
        c == IF modeOk THEN b + k + 2 ELSE b
        d == c + 1 + RunLen(input, c + 1, SpaceBytes)
        rest == Slice(input, d, n)
        body == IF HasSuffix(rest, "\n") THEN Slice(rest, 0, Len(rest) - 1) ELSE rest
        ok == /\ b > a
              /\ c < n
              /\ At(input, c) \in {">", "#"}
              /\ ~Contains(body, "\n")
    IN  IF ok
        THEN [ok |-> TRUE,
              m  |-> <<Slice(input, 0, a), Slice(input, a, b), Slice(input, b, c),
                       At(input, c), body>>]
        ELSE [ok |-> FALSE, m |-> <<"", "", "", "", "">>]

(***************************************************************************)
(* Tokens and the lexer (lexer/lexer.go)                                   *)
(***************************************************************************)

\* TokenType, by the names TokenType.String gives.
TokenTypes ==
    {"Text", "Command", "Section", "Protocol", "Action", "Interface", "IPv4",
     "IPv4Prefix", "IPv6", "IPv6Prefix", "MAC", "Number", "String", "Comment",
     "Identifier", "Keyword", "Operator", "ASN", "Community", "Value", "Negation",
     "StateGood", "StateBad", "StateWarning", "StateNeutral",
     "ColumnHeader", "StatusSymbol", "TimeDuration", "Percentage", "ByteSize",
     "RouteProtocol",
     "PromptHost", "PromptMode", "PromptOper", "PromptConf"}

ParseModes == {"Auto", "Config", "Show"}

Token(type, value, line, column) ==
    [Type |-> type, Value |-> value, Line |-> line, Column |-> column]

\* The Lexer struct as a record.
New(in) ==
    [input |-> in, pos |-> 0, line |-> 1, col |-> 1, parseMode |-> "Auto",
     detectedMode |-> FALSE, expectingValue |-> FALSE, lastToken |-> ""]

SetParseMode(l, mode) == [l EXCEPT !.parseMode = mode, !.detectedMode = TRUE]

advance(l) ==
    IF l.pos < Len(l.input)
    THEN IF At(l.input, l.pos) = "\n"
         THEN [l EXCEPT !.line = l.line + 1, !.col = 1, !.pos = l.pos + 1]
         ELSE [l EXCEPT !.col = l.col + 1, !.pos = l.pos + 1]
    ELSE l

isWhitespace(ch) == ch \in {" ", "\t", "\n", "\r"}

isAllDigits(s) == Len(s) # 0 /\ \A i \in 0..(Len(s) - 1) : At(s, i) \in Digits

CountContained(lower, indicators) ==
    Cardinality({i \in 1..Len(indicators) : Contains(lower, indicators[i])})

\* detectParseMode that lets a tie go to Show.
detectParseModeTieShow(l) ==
    LET sample == IF Len(l.input) > parseModeDetectionSampleSize
                  THEN Slice(l.input, 0, parseModeDetectionSampleSize)
                  ELSE l.input
        lower == ToLower(sample)
        configScore == CountContained(lower, ConfigIndicators)
                        + (IF Contains(sample, "\n!\n") \/ HasPrefix(sample, "!\n")
                           THEN 2 ELSE 0)
        showScore == CountContained(lower, ShowIndicators)
                        + (IF tabularPattern(sample) THEN 2 ELSE 0)
    IN  IF showScore >= 2 /\ showScore >= configScore THEN "Show" ELSE "Config"

detectParseMode(l) ==
    LET sample == IF Len(l.input) > parseModeDetectionSampleSize
                  THEN Slice(l.input, 0, parseModeDetectionSampleSize)
                  ELSE l.input
        lower == ToLower(sample)
        configScore == CountContained(lower, ConfigIndicators)
                        + (IF Contains(sample, "\n!\n") \/ HasPrefix(sample, "!\n")
                           THEN 2 ELSE 0)
        showScore == CountContained(lower, ShowIndicators)
                        + (IF tabularPattern(sample) THEN 2 ELSE 0)
    IN  IF showScore >= 2 /\ showScore > configScore THEN "Show" ELSE "Config"

\* The result of a classification: the lexer as the call leaves it, and the type.
Classified(l, type) == [lex |-> l, type |-> type]

\* classifySharedPatterns with the community check not gated on the last token.
classifySharedPatternsUngated(l, word) ==
    Classified(l,
        IF interfacePattern(word) THEN "Interface"
        ELSE IF ipv4PrefixPattern(word) THEN "IPv4Prefix"
        ELSE IF ipv4Pattern(word) THEN "IPv4"
        ELSE IF macPatternCisco(word) THEN "MAC"
        ELSE IF macPatternColon(word) THEN "MAC"
        ELSE IF communityPattern(word) THEN "Community"
        ELSE IF ipv6PrefixPattern(word) THEN "IPv6Prefix"
        ELSE IF ipv6Pattern(word) THEN "IPv6"
        ELSE IF isAllDigits(word) THEN "Number"
        ELSE "Identifier")

classifySharedPatterns(l, word) ==
    Classified(l,
        IF interfacePattern(word) THEN "Interface"
        ELSE IF ipv4PrefixPattern(word) THEN "IPv4Prefix"
        ELSE IF ipv4Pattern(word) THEN "IPv4"
        ELSE IF macPatternCisco(word) THEN "MAC"
        ELSE IF macPatternColon(word) THEN "MAC"
        ELSE IF l.lastToken = "community" /\ communityPattern(word) THEN "Community"
        ELSE IF ipv6PrefixPattern(word) THEN "IPv6Prefix"
        ELSE IF ipv6Pattern(word) THEN "IPv6"
        ELSE IF isAllDigits(word) THEN "Number"
        ELSE "Identifier")

\* classifyConfigWord that tests the Keyword set before the Command set.
classifyConfigWordKeywordFirst(l, word, lower) ==
    IF lower = "no" THEN Classified([l EXCEPT !.lastToken = lower], "Negation")
    ELSE IF asnPattern(word) THEN Classified(l, "ASN")
    ELSE IF lower \in keywords
    THEN Classified([l EXCEPT !.expectingValue = (lower \in valueKeywords) \/ @,
                              !.lastToken = lower], "Keyword")
    ELSE IF lower \in commands THEN Classified([l EXCEPT !.lastToken = lower], "Command")
    ELSE IF lower \in sections THEN Classified([l EXCEPT !.lastToken = lower], "Section")
    ELSE IF lower \in protocols THEN Classified([l EXCEPT !.lastToken = lower], "Protocol")
    ELSE IF lower \in actions
    THEN Classified([l EXCEPT !.expectingValue = (lower \in valueKeywords) \/ @,
                              !.lastToken = lower], "Action")
    ELSE IF lower \in operators THEN Classified([l EXCEPT !.lastToken = lower], "Operator")
    ELSE classifySharedPatterns(l, word)

\* classifyConfigWord whose Operator rule does not record the word.
classifyConfigWordOperatorKeeps(l, word, lower) ==
    IF lower = "no" THEN Classified([l EXCEPT !.lastToken = lower], "Negation")
    ELSE IF asnPattern(word) THEN Classified(l, "ASN")
    ELSE IF lower \in commands THEN Classified([l EXCEPT !.lastToken = lower], "Command")
    ELSE IF lower \in sections THEN Classified([l EXCEPT !.lastToken = lower], "Section")
    ELSE IF lower \in protocols THEN Classified([l EXCEPT !.lastToken = lower], "Protocol")
    ELSE IF lower \in actions
    THEN Classified([l EXCEPT !.expectingValue = (lower \in valueKeywords) \/ @,
                              !.lastToken = lower], "Action")
    ELSE IF lower \in operators THEN Classified(l, "Operator")
    ELSE IF lower \in keywords
    THEN Classified([l EXCEPT !.expectingValue = (lower \in valueKeywords) \/ @,
                              !.lastToken = lower], "Keyword")
    ELSE classifySharedPatterns(l, word)

classifyConfigWord(l, word, lower) ==
    IF lower = "no" THEN Classified([l EXCEPT !.lastToken = lower], "Negation")
    ELSE IF asnPattern(word) THEN Classified(l, "ASN")
    ELSE IF lower \in commands THEN Classified([l EXCEPT !.lastToken = lower], "Command")
    ELSE IF lower \in sections THEN Classified([l EXCEPT !.lastToken = lower], "Section")
    ELSE IF lower \in protocols THEN Classified([l EXCEPT !.lastToken = lower], "Protocol")
    ELSE IF lower \in actions
    THEN Classified([l EXCEPT !.expectingValue = (lower \in valueKeywords) \/ @,
                              !.lastToken = lower], "Action")
    ELSE IF lower \in operators THEN Classified([l EXCEPT !.lastToken = lower], "Operator")
    ELSE IF lower \in keywords
    THEN Classified([l EXCEPT !.expectingValue = (lower \in valueKeywords) \/ @,
                              !.lastToken = lower], "Keyword")
    ELSE classifySharedPatterns(l, word)

classifyShowWord(l, word, lower) ==
    IF lower \in statesGoodCompound THEN Classified(l, "StateGood")
    ELSE IF lower \in statesBadCompound THEN Classified(l, "StateBad")
    ELSE IF lower \in statesGood THEN Classified(l, "StateGood")
    ELSE IF lower \in statesBad THEN Classified(l, "StateBad")
    ELSE IF lower \in statesWarning THEN Classified(l, "StateWarning")
    ELSE IF lower \in statesNeutral THEN Classified(l, "StateNeutral")
    ELSE IF Len(word) <= 2 /\ word \in statusSymbols THEN Classified(l, "StatusSymbol")
    ELSE IF timeDurationPattern(word) THEN Classified(l, "TimeDuration")
    ELSE IF percentagePattern(word) THEN Classified(l, "Percentage")
    ELSE IF byteSizePattern(word) THEN Classified(l, "ByteSize")
    ELSE IF routeProtocolPattern(word) THEN Classified(l, "RouteProtocol")
    ELSE IF lower \in columnHeaders THEN Classified(l, "ColumnHeader")
    ELSE classifySharedPatterns(l, word)

\* classifyWord that runs the detector whenever the mode is Auto.
classifyWordRedetect(l, word) ==
    LET l1 == IF l.parseMode = "Auto"
              THEN [l EXCEPT !.parseMode = detectParseMode(l), !.detectedMode = TRUE]
              ELSE l
        lower == ToLower(word)
    IN  IF l1.parseMode = "Show" THEN classifyShowWord(l1, word, lower)
        ELSE classifyConfigWord(l1, word, lower)

classifyWord(l, word) ==
    LET l1 == IF l.parseMode = "Auto" /\ ~l.detectedMode
              THEN [l EXCEPT !.parseMode = detectParseMode(l), !.detectedMode = TRUE]
              ELSE l
        lower == ToLower(word)
    IN  IF l1.parseMode = "Show" THEN classifyShowWord(l1, word, lower)
        ELSE classifyConfigWord(l1, word, lower)

\* The result of a scan: the lexer as the scan leaves it, and the token.
Scanned(l, type, start, startLine, startCol) ==
    [lex |-> l, tok |-> Token(type, Slice(l.input, start, l.pos), startLine, startCol)]

RECURSIVE advanceToNewline(_)
advanceToNewline(l) ==
    IF l.pos < Len(l.input) /\ At(l.input, l.pos) # "\n"
    THEN advanceToNewline(advance(l))
    ELSE l

scanComment(l) == Scanned(advanceToNewline(l), "Comment", l.pos, l.line, l.col)

RECURSIVE scanStringLoop(_, _)
scanStringLoop(l, quote) ==
    IF l.pos < Len(l.input)
    THEN LET ch == At(l.input, l.pos)
         IN  IF ch = quote THEN advance(l)
             ELSE IF ch = "\\" /\ l.pos + 1 < Len(l.input)
                  THEN scanStringLoop(advance(advance(l)), quote)
                  ELSE scanStringLoop(advance(l), quote)
    ELSE l

scanString(l, quote) ==
    Scanned(scanStringLoop(advance(l), quote), "String", l.pos, l.line, l.col)

scanValueToEndOfLine(l) == Scanned(advanceToNewline(l), "Value", l.pos, l.line, l.col)

RECURSIVE scanWhitespaceLoop(_)
scanWhitespaceLoop(l) ==
    IF l.pos < Len(l.input) /\ isWhitespace(At(l.input, l.pos))
    THEN scanWhitespaceLoop(advance(l))
    ELSE l

\* scanWhitespace that consumes nothing.
scanWhitespaceStuck(l) == Scanned(l, "Text", l.pos, l.line, l.col)

scanWhitespace(l) == Scanned(scanWhitespaceLoop(l), "Text", l.pos, l.line, l.col)

RECURSIVE scanWordLoop(_)
scanWordLoop(l) ==
    IF l.pos < Len(l.input)
       /\ ~(isWhitespace(At(l.input, l.pos)) \/ At(l.input, l.pos) \in {"\"", "'"})
    THEN scanWordLoop(advance(l))
    ELSE l

scanWord(l) ==
    LET l1 == scanWordLoop(l)
        c == classifyWord(l1, Slice(l.input, l.pos, l1.pos))
    IN  Scanned(c.lex, c.type, l.pos, l.line, l.col)

\* scanQuoted that keeps the String type when a value is expected.
scanQuotedString(l, quote) == scanString([l EXCEPT !.expectingValue = FALSE], quote)

\* A quoted string scanned while a value is expected is retyped Value.
scanQuoted(l, quote) ==
    LET s == scanString([l EXCEPT !.expectingValue = FALSE], quote)
    IN  IF l.expectingValue THEN [s EXCEPT !.tok.Type = "Value"] ELSE s

nextToken(l) ==
    IF l.pos >= Len(l.input)
    THEN [lex |-> l, tok |-> Token("Text", "", l.line, l.col)]
    ELSE LET ch == At(l.input, l.pos)
         IN  IF ch = "!" /\ l.col = 1 THEN scanComment(l)
             ELSE IF ch = "\"" THEN scanQuoted(l, "\"")
             ELSE IF ch = "'" THEN scanQuoted(l, "'")
             ELSE IF isWhitespace(ch) THEN scanWhitespace(l)
             ELSE IF l.expectingValue
                  THEN scanValueToEndOfLine([l EXCEPT !.expectingValue = FALSE])
                  ELSE scanWord(l)

\* One turn of the loop of Tokenize: the token is kept unless it is an empty Text.
KeepToken(tokens, token) ==
    IF token.Type # "Text" \/ token.Value # "" THEN Append(tokens, token) ELSE tokens

RECURSIVE TokenizeLoop(_, _)
TokenizeLoop(l, tokens) ==
    IF l.pos < Len(l.input)
    THEN LET s == nextToken(l) IN TokenizeLoop(s.lex, KeepToken(tokens, s.tok))
    ELSE tokens

\* The tokens of the command typed after a prompt, each re-columned in turn.
RECURSIVE Recolumn(_, _)
Recolumn(cmdTokens, col) ==
    IF cmdTokens = <<>> THEN <<>>
    ELSE <<[cmdTokens[1] EXCEPT !.Column = col]>>
            \o Recolumn(Tail(cmdTokens), col + Len(cmdTokens[1].Value))

RECURSIVE SumLen(_)
SumLen(tokens) == IF tokens = <<>> THEN 0 ELSE Len(tokens[1].Value) + SumLen(Tail(tokens))

RECURSIVE Tokenize(_)
RECURSIVE tryTokenizePrompt(_, _)

\* The command typed after the prompt character and the trailing newline: the
\* tokens that follow the prompt character at column col.
PromptCommand(input, command, cmdTokens, col) ==
    LET cmd == IF command # ""
               THEN <<Token("Text", " ", 1, col)>> \o Recolumn(cmdTokens, col + 1)
               ELSE <<>>
        end == IF command # "" THEN col + 1 + SumLen(cmdTokens) ELSE col
        nl == IF HasSuffix(input, "\n") THEN <<Token("Text", "\n", 1, end)>> ELSE <<>>
    IN  cmd \o nl

\* tryTokenizePrompt with the two terminator categories exchanged.
tryTokenizePromptSwapped(input, m) ==
    LET lead == IF m[1] # "" THEN <<Token("Text", m[1], 1, 1)>> ELSE <<>>
        host == <<Token("PromptHost", m[2], 1, 1 + Len(m[1]))>>
        mode == IF m[3] # ""
                THEN <<Token("PromptMode", m[3], 1, 1 + Len(m[1]) + Len(m[2]))>>
                ELSE <<>>
        char == <<Token(IF m[4] = "#" THEN "PromptOper" ELSE "PromptConf", m[4], 1,
                        1 + Len(m[1]) + Len(m[2]) + Len(m[3]))>>
    IN  lead \o host \o mode \o char
            \o PromptCommand(input, m[5],
                             IF m[5] # "" THEN Tokenize(New(TrimSpace(m[5]))) ELSE <<>>,
                             2 + Len(m[1]) + Len(m[2]) + Len(m[3]))

\* The tokens of an input that matched promptPattern with submatches m.
tryTokenizePrompt(input, m) ==
    LET lead == IF m[1] # "" THEN <<Token("Text", m[1], 1, 1)>> ELSE <<>>
        host == <<Token("PromptHost", m[2], 1, 1 + Len(m[1]))>>
        mode == IF m[3] # ""
                THEN <<Token("PromptMode", m[3], 1, 1 + Len(m[1]) + Len(m[2]))>>
                ELSE <<>>
        char == <<Token(IF m[4] = "#" THEN "PromptConf" ELSE "PromptOper", m[4], 1,
                        1 + Len(m[1]) + Len(m[2]) + Len(m[3]))>>
    IN  lead \o host \o mode \o char
            \o PromptCommand(input, m[5],
                             IF m[5] # "" THEN Tokenize(New(TrimSpace(m[5]))) ELSE <<>>,
                             2 + Len(m[1]) + Len(m[2]) + Len(m[3]))

Tokenize(l) ==
    LET p == promptPattern(l.input)
    IN  IF p.ok THEN tryTokenizePrompt(l.input, p.m) ELSE TokenizeLoop(l, <<>>)

IsPrompt(input) == promptPattern(TrimSpace(input)).ok

(***************************************************************************)
(* Themes (highlighter/theme.go)                                           *)
(***************************************************************************)

\* "\033[" + code + "m", the shape of every colour constant of theme.go.
Ansi(code) == escapeChar \o "[" \o code \o "m"

Reset == Ansi("0")

Bold == Ansi("1")

Dim == Ansi("2")

Italic == Ansi("3")

RGB(r, g, b) ==
    escapeChar \o "[38;2;" \o Itoa(r) \o ";" \o Itoa(g) \o ";" \o Itoa(b) \o "m"

\* The colors map of the Theme that buildTheme makes of palette p.
buildTheme(p) ==
    [t \in TokenTypes |->
        CASE t = "Text" -> ""
          [] t = "Command" -> Bold \o p.Command
          [] t = "Section" -> Bold \o p.Section
          [] t = "Protocol" -> p.Protocol
          [] t = "Action" -> Bold \o p.Action
          [] t = "Interface" -> Bold \o p.Interface
          [] t \in {"IPv4", "IPv4Prefix", "IPv6", "IPv6Prefix"} -> p.IP
          [] t = "MAC" -> p.MAC
          [] t = "Number" -> p.Number
          [] t = "String" -> p.String
          [] t = "Comment" -> Italic \o p.Comment
          [] t = "Identifier" -> p.Foreground
          [] t = "Keyword" -> p.Keyword
          [] t = "Operator" -> p.Operator
          [] t = "ASN" -> p.ASN
          [] t = "Community" -> p.Community
          [] t = "Value" -> p.Value
          [] t = "Negation" -> Bold \o p.Negation
          [] t = "StateGood" -> Bold \o p.StateGood
          [] t = "StateBad" -> Bold \o p.StateBad
          [] t = "StateWarning" -> Bold \o p.StateWarning
          [] t = "StateNeutral" -> Dim \o p.Comment
          [] t = "ColumnHeader" -> Bold \o p.Foreground
          [] t = "StatusSymbol" -> Bold \o p.Protocol
          [] t = "TimeDuration" -> p.Duration
          [] t = "Percentage" -> p.StateGood
          [] t = "ByteSize" -> p.Protocol
          [] t = "RouteProtocol" -> Bold \o p.RouteProtocol
          [] t = "PromptHost" -> Bold \o p.PromptHost
          [] t = "PromptMode" -> p.PromptMode
          [] t = "PromptOper" -> Bold \o p.PromptOper
          [] t = "PromptConf" -> Bold \o p.PromptConf]
        @@ [t \in {"Text"} |-> ""]

TokyoNightTheme ==
    LET foreground == RGB(192, 202, 245)
        comment == RGB(86, 95, 137)
        red == RGB(247, 118, 142)
        green == RGB(158, 206, 106)
        yellow == RGB(224, 175, 104)
        blue == RGB(122, 162, 247)
        magenta == RGB(187, 154, 247)
        cyan == RGB(125, 207, 255)
        orange == RGB(255, 158, 100)
        purple == RGB(157, 124, 216)
        teal == RGB(115, 218, 202)
    IN  buildTheme(
            [Foreground |-> foreground, Comment |-> comment, Command |-> magenta,
             Section |-> blue, Protocol |-> cyan, Action |-> green, Interface |-> orange,
             IP |-> teal, Number |-> purple, String |-> green, Keyword |-> yellow,
             Operator |-> blue, ASN |-> orange, Community |-> magenta, Value |-> cyan,
             MAC |-> cyan, Negation |-> red, StateGood |-> green, StateBad |-> red,
             StateWarning |-> yellow, Duration |-> orange, RouteProtocol |-> purple,
             PromptHost |-> teal, PromptMode |-> yellow, PromptOper |-> green,
             PromptConf |-> red])

\* White 37, Yellow 33, Magenta 35, Cyan 36, BrightBlack 90 .. BrightWhite 97
VibrantTheme ==
    buildTheme(
        [Foreground |-> Ansi("37"), Comment |-> Dim \o Ansi("90"), Command |-> Ansi("93"),
         Section |-> Ansi("94"), Protocol |-> Ansi("96"), Action |-> Ansi("92"),
         Interface |-> Ansi("95"), IP |-> Ansi("92"), Number |-> Ansi("96"),
         String |-> Ansi("93"), Keyword |-> Ansi("33"), Operator |-> Ansi("97"),
         ASN |-> Ansi("95"), Community |-> Ansi("35"), Value |-> Ansi("96"),
         MAC |-> Ansi("36"), Negation |-> Ansi("91"), StateGood |-> Ansi("92"),
         StateBad |-> Ansi("91"), StateWarning |-> Ansi("93"), Duration |-> Ansi("95"),
         RouteProtocol |-> Ansi("35"), PromptHost |-> Bold \o Ansi("96"),
         PromptMode |-> Ansi("93"), PromptOper |-> Bold \o Ansi("92"),
         PromptConf |-> Bold \o Ansi("91")])

DefaultTheme == TokyoNightTheme

\* SetColor that stores the colour for every category of the map.
SetColorEverywhere(colors, tokenType, color) ==
    [t \in DOMAIN colors \cup {tokenType} |-> color]

\* Theme.SetColor on a colors map: t.colors[tokenType] = color.
SetColor(colors, tokenType, color) ==
    [t \in DOMAIN colors \cup {tokenType} |->
        IF t = tokenType THEN color ELSE colors[t]]

\* Theme.GetColor on a colors map.
GetColor(colors, tokenType) ==
    IF tokenType \in DOMAIN colors THEN colors[tokenType] ELSE ""

(***************************************************************************)
(* The escape-aware segmenter (highlighter/highlighter.go)                 *)
(***************************************************************************)

csiParamStart == 32

csiParamEnd == 63

csiFinalStart == 64

csiFinalEnd == 126

csiIntermEnd == 47

isCSIParamByte(b) == ByteCode(b) >= csiParamStart /\ ByteCode(b) <= csiParamEnd

isCSIFinalByte(b) == ByteCode(b) >= csiFinalStart /\ ByteCode(b) <= csiFinalEnd

isCSIIntermediateByte(b) == ByteCode(b) >= csiParamStart /\ ByteCode(b) <= csiIntermEnd

RECURSIVE skipCSIParams(_, _)
skipCSIParams(input, i) ==
    IF i < Len(input) /\ isCSIParamByte(At(input, i)) THEN skipCSIParams(input, i + 1) ELSE i

skipCSISequence(input, i) ==
    LET j == skipCSIParams(input, i)
    IN  IF j < Len(input) /\ isCSIFinalByte(At(input, j)) THEN j + 1 ELSE j

RECURSIVE skipIntermediates(_, _)
skipIntermediates(input, i) ==
    IF i < Len(input) /\ isCSIIntermediateByte(At(input, i))
    THEN skipIntermediates(input, i + 1)
    ELSE i

skipOtherEscapeSequence(input, i) ==
    LET j == skipIntermediates(input, i)
    IN  IF j < Len(input) THEN j + 1 ELSE j

segment(text, isEscape) == [text |-> text, isEscape |-> isEscape]

\* FlushText that closes the pending text into a segment even when it is empty.
FlushTextAlways(segments, textBuf) == Append(segments, segment(textBuf, FALSE))

\* FlushText that forgets the pending text.
FlushTextDropped(segments, textBuf) == segments

\* The pending text, if any, closed into a text segment.
FlushText(segments, textBuf) ==
    IF Len(textBuf) > 0 THEN Append(segments, segment(textBuf, FALSE)) ELSE segments

RECURSIVE extractSegmentsLoop(_, _, _, _)
extractSegmentsLoop(input, i, segments, textBuf) ==
    IF i < Len(input)
    THEN IF At(input, i) = escapeChar /\ i + 1 < Len(input)
         THEN LET j == IF At(input, i + 1) = csiBracket
                       THEN skipCSISequence(input, i + 2)
                       ELSE skipOtherEscapeSequence(input, i + 1)
              IN  extractSegmentsLoop(input, j,
                      Append(FlushText(segments, textBuf), segment(Slice(input, i, j), TRUE)),
                      "")
         ELSE extractSegmentsLoop(input, i + 1, segments, textBuf \o At(input, i))
    ELSE FlushText(segments, textBuf)

extractSegments(input) == extractSegmentsLoop(input, 0, <<>>, "")

RECURSIVE StripANSILoop(_, _, _)
StripANSILoop(input, i, buf) ==
    IF i < Len(input)
    THEN IF At(input, i) = escapeChar /\ i + 1 < Len(input) /\ At(input, i + 1) = csiBracket
         THEN StripANSILoop(input, skipCSISequence(input, i + 2), buf)
         ELSE IF At(input, i) = escapeChar
              THEN StripANSILoop(input, skipOtherEscapeSequence(input, i + 1), buf)
              ELSE StripANSILoop(input, i + 1, buf \o At(input, i))
    ELSE buf

StripANSI(input) == StripANSILoop(input, 0, "")

HasANSI(input) == Contains(input, escapeChar \o "[")

(***************************************************************************)
(* The heuristic gate (highlighter/highlighter.go)                         *)
(***************************************************************************)

\* strings.LastIndex for a one-byte needle: the 0-based index, or -1.
LastIndex(s, c) ==
    IF \E i \in 0..(Len(s) - 1) : At(s, i) = c
    THEN CHOOSE i \in 0..(Len(s) - 1) :
            At(s, i) = c /\ \A j \in (i + 1)..(Len(s) - 1) : At(s, j) # c
    ELSE -1

isValidHostname(s) ==
    /\ Len(s) # 0
    /\ AllIn(s, LowerLetters \cup UpperLetters \cup Digits \cup {"-", ".", "_"})

isPromptLine(input) ==
    \/ IsPrompt(input)
    \/ LET trimmed == TrimSpace(input)
           n == Len(trimmed)
       IN  /\ n > 1
           /\ At(trimmed, n - 1) \in {">", "#"}
           /\ LET prefix == Slice(trimmed, 0, n - 1)
                  cut == IF LastIndex(prefix, ")") >= 0 /\ LastIndex(prefix, "(") >= 0
                         THEN Slice(prefix, 0, LastIndex(prefix, "("))
                         ELSE prefix
              IN  Len(cut) > 0 /\ isValidHostname(cut)

hasConfigIndicators(lower) ==
    \E k \in 1..Len(ConfigIndicators) : Contains(lower, ConfigIndicators[k])

hasShowIndicators(lower) ==
    \E k \in 1..Len(ShowIndicators) : Contains(lower, ShowIndicators[k])

\* At least two lines that are "!" once trimmed.  The loop of the source visits the
\* parts between newlines, bar an empty part after a final newline, which is no "!".
hasCiscoSeparators(input) ==
    LET lines == Split(input, "\n")
    IN  Cardinality({k \in 1..Len(lines) : TrimSpace(lines[k]) = "!"}) >= 2

hasCiscoKeywords(lower) ==
    \E k \in 1..Len(ciscoSpecificKeywords) : Contains(lower, ciscoSpecificKeywords[k])

looksLikeCisco(input) ==
    \/ isPromptLine(input)
    \/ hasConfigIndicators(ToLower(input))
    \/ hasShowIndicators(ToLower(input))
    \/ hasCiscoSeparators(input)
    \/ hasCiscoKeywords(ToLower(input))

(***************************************************************************)
(* The renderer and the entry points (highlighter/highlighter.go)          *)
(***************************************************************************)

RECURSIVE renderTokens(_, _)
renderTokens(colors, tokens) ==
    IF tokens = <<>> THEN ""
    ELSE LET token == tokens[1]
             color == GetColor(colors, token.Type)
         IN  (IF color # "" THEN color \o token.Value \o Reset ELSE token.Value)
                \o renderTokens(colors, Tail(tokens))

highlightTokensCleaned(colors, cleaned) == renderTokens(colors, Tokenize(New(cleaned)))

\* What highlightTokens writes to its buffer for one segment.
RenderSegment(colors, seg) ==
    IF seg.isEscape THEN seg.text ELSE highlightTokensCleaned(colors, seg.text)

RECURSIVE RenderSegments(_, _)
RenderSegments(colors, segments) ==
    IF segments = <<>> THEN ""
    ELSE RenderSegment(colors, segments[1]) \o RenderSegments(colors, Tail(segments))

\* highlightTokens that lexes the whole input, control sequences and all.
highlightTokensUnsegmented(colors, input) == highlightTokensCleaned(colors, input)

highlightTokens(colors, input) == RenderSegments(colors, extractSegments(input))

\* Highlight that returns the stripped text when the gate rejects it.
HighlightReturnsCleaned(isEnabled, colors, input) ==
    IF ~isEnabled \/ input = "" THEN input
    ELSE LET cleaned == StripANSI(input)
         IN  IF ~looksLikeCisco(cleaned) THEN cleaned
             ELSE highlightTokensCleaned(colors, cleaned)

Highlight(isEnabled, colors, input) ==
    IF ~isEnabled \/ input = "" THEN input
    ELSE LET cleaned == StripANSI(input)
         IN  IF ~looksLikeCisco(cleaned) THEN input
             ELSE highlightTokensCleaned(colors, cleaned)

HighlightForced(isEnabled, colors, input) ==
    IF ~isEnabled \/ input = "" THEN input ELSE highlightTokens(colors, input)

HighlightShowOutput(isEnabled, colors, input) ==
    IF ~isEnabled \/ input = "" THEN input
    ELSE renderTokens(colors, Tokenize(SetParseMode(New(input), "Show")))

(***************************************************************************)
(* Bounds and inputs                                                       *)
(***************************************************************************)

\* The longest byte string given to the segmenter.
MaxSegLen == 5

\* The number of fragments an input of the lexer is made of, at most.
MaxLexFrags == 3

\* The number of fragments an input of the highlighter is made of, at most.
MaxHlFrags == 2

\* An escape byte, a bracket, a parameter byte, a byte that is parameter and
\* intermediate at once, and a final byte.
SegBytes == {escapeChar, "[", "1", " ", "m"}

LexFrags ==
    {"description", "hostname", "banner", "remark", "community", "12:00", "no",
     "x", " ", "\n", "\"", "R#"}

HlFrags == {escapeChar \o "[K", escapeChar, "no ", "x", "R#", "\n"}

\* The strings made of at most n pieces of frags.
RECURSIVE Concats(_, _)
Concats(frags, n) ==
    IF n = 0 THEN {""}
    ELSE LET shorter == Concats(frags, n - 1)
         IN  shorter \cup {s \o f : s \in shorter, f \in frags}

SegInputs == Concats(SegBytes, MaxSegLen)

LexInputs == Concats(LexFrags, MaxLexFrags)

HlInputs == Concats(HlFrags, MaxHlFrags)

ThemeNames == {"tokyonight", "vibrant"}

ThemeByName(name) == IF name = "vibrant" THEN VibrantTheme ELSE DefaultTheme

(***************************************************************************)
(* State                                                                   *)
(***************************************************************************)

VARIABLES
    lexer,      \* the Lexer struct of one tokenizing pass
    tokens,     \* the tokens Tokenize has collected
    pc,         \* where that pass is: "new", "scanning" or "done"
    enabled,    \* Highlighter.enabled
    theme,      \* Highlighter.theme, by name
    call,       \* the last call on the Highlighter: op, input and result
    segInput,   \* the byte string given to the segmenter's functions
    segments,   \* extractSegments(segInput), once called
    stripped,   \* StripANSI(segInput), once called
    hasANSI,    \* HasANSI(segInput), once called
    segDone     \* which of the three have been called

VARIABLES
    themes,     \* the colors map of each Theme instance
    tcall,      \* the last call on a Theme made by a single caller
    mu,         \* Theme.mu of the shared Theme: the writer and the readers holding it
    threads,    \* each thread's call on the shared Theme and its position in it
    written     \* for each category, the colours ever stored for it in the shared Theme

VARIABLES
    forced      \* a HighlightForced call in progress: its segments, buffer and position

themeVars == <<themes, tcall, mu, threads, written>>

vars ==
    <<lexer, tokens, pc, enabled, theme, call, segInput, segments, stripped, hasANSI,
      segDone, themes, tcall, mu, threads, written, forced>>

lexerVars == <<lexer, tokens, pc>>

hlVars == <<enabled, theme, call, forced>>

segVars == <<segInput, segments, stripped, hasANSI, segDone>>

NoCall == [op |-> "none", input |-> "", result |-> ""]

\* The Theme instances, the categories and the colours of the calls on them.
\* "Unknown" is a TokenType outside the enumeration, which no theme maps.
ThemeIds == {"a", "b"}

SharedTheme == "a"

ThemeTypes == {"Command", "Text", "Unknown"}

ThemeColors == {Ansi("35"), ""}

Threads == {"t1", "t2"}

\* What a read that overlaps a write of the map may return.
Torn == "torn"

NoThemeCall == [op |-> "none", theme |-> "", type |-> "", color |-> "", result |-> ""]

IdleThread == [pc |-> "idle", op |-> "none", type |-> "", color |-> "", result |-> ""]

\* Each instance is a DefaultTheme() of its own.
ThemeIdle ==
    /\ themes = [i \in ThemeIds |-> DefaultTheme]
    /\ tcall = NoThemeCall
    /\ mu = [writer |-> "none", readers |-> {}]
    /\ threads = [th \in Threads |-> IdleThread]
    /\ written = [c \in ThemeTypes |-> {GetColor(DefaultTheme, c)}]

LexerIdle == lexer = New("") /\ tokens = <<>> /\ pc = "new"

\* New() and NewWithTheme(): enabled, with the theme given.
\* No HighlightForced call in progress.
NoForced ==
    [pc |-> "idle", input |-> "", segments |-> <<>>, k |-> 1, buf |-> "", used |-> {}]

HlNew == enabled = TRUE /\ theme \in ThemeNames /\ call = NoCall /\ forced = NoForced

SegIdle ==
    /\ segInput = "" /\ segments = <<>> /\ stripped = "" /\ hasANSI = FALSE
    /\ segDone = {}

(***************************************************************************)
(* One tokenizing pass of a Lexer                                          *)
(***************************************************************************)

InitLexer ==
    /\ \E in \in LexInputs : lexer = New(in)
    /\ tokens = <<>>
    /\ pc = "new"
    /\ HlNew /\ theme = "tokyonight"
    /\ ThemeIdle
    /\ SegIdle

SetParseModeCall(mode) ==
    /\ pc = "new"
    /\ lexer' = SetParseMode(lexer, mode)
    /\ UNCHANGED <<tokens, pc, hlVars, segVars, themeVars>>

\* Tokenize, up to its loop: the whole-input prompt check.
TokenizeBegin ==
    /\ pc = "new"
    /\ LET p == promptPattern(lexer.input)
       IN  IF p.ok
           THEN tokens' = tryTokenizePrompt(lexer.input, p.m) /\ pc' = "done"
           ELSE /\ tokens' = <<>>
                /\ pc' = IF lexer.pos < Len(lexer.input) THEN "scanning" ELSE "done"
    /\ UNCHANGED <<lexer, hlVars, segVars, themeVars>>

\* One turn of the loop of Tokenize.
TokenizeStep ==
    /\ pc = "scanning"
    /\ lexer.pos < Len(lexer.input)
    /\ LET s == nextToken(lexer)
       IN  /\ lexer' = s.lex
           /\ tokens' = KeepToken(tokens, s.tok)
           /\ pc' = IF s.lex.pos < Len(s.lex.input) THEN "scanning" ELSE "done"
    /\ UNCHANGED <<hlVars, segVars, themeVars>>

NextLexer ==
    \/ \E mode \in ParseModes : SetParseModeCall(mode)
    \/ TokenizeBegin
    \/ TokenizeStep

SpecLexer == InitLexer /\ [][NextLexer]_vars

(***************************************************************************)
(* The segmenter's functions on one byte string                            *)
(***************************************************************************)

InitSegmenter ==
    /\ segInput \in SegInputs
    /\ segments = <<>> /\ stripped = "" /\ hasANSI = FALSE /\ segDone = {}
    /\ LexerIdle
    /\ HlNew /\ theme = "tokyonight"
    /\ ThemeIdle

ExtractSegmentsCall ==
    /\ "extractSegments" \notin segDone
    /\ segments' = extractSegments(segInput)
    /\ segDone' = segDone \cup {"extractSegments"}
    /\ UNCHANGED <<segInput, stripped, hasANSI, lexerVars, hlVars, themeVars>>

StripANSICall ==
    /\ "StripANSI" \notin segDone
    /\ stripped' = StripANSI(segInput)
    /\ segDone' = segDone \cup {"StripANSI"}
    /\ UNCHANGED <<segInput, segments, hasANSI, lexerVars, hlVars, themeVars>>

HasANSICall ==
    /\ "HasANSI" \notin segDone
    /\ hasANSI' = HasANSI(segInput)
    /\ segDone' = segDone \cup {"HasANSI"}
    /\ UNCHANGED <<segInput, segments, stripped, lexerVars, hlVars, themeVars>>

NextSegmenter == ExtractSegmentsCall \/ StripANSICall \/ HasANSICall

SpecSegmenter == InitSegmenter /\ [][NextSegmenter]_vars

(***************************************************************************)
(* A Highlighter and the calls on it                                       *)
(***************************************************************************)

InitHighlighter == HlNew /\ LexerIdle /\ SegIdle /\ ThemeIdle

Enable ==
    /\ enabled' = TRUE
    /\ call' = [op |-> "Enable", input |-> "", result |-> ""]
    /\ UNCHANGED <<theme, forced, lexerVars, segVars, themeVars>>

Disable ==
    /\ enabled' = FALSE
    /\ call' = [op |-> "Disable", input |-> "", result |-> ""]
    /\ UNCHANGED <<theme, forced, lexerVars, segVars, themeVars>>

\* Toggle that returns the state it found.
ToggleReturnsOld ==
    /\ enabled' = ~enabled
    /\ call' = [op |-> "Toggle", input |-> "", result |-> enabled]
    /\ UNCHANGED <<theme, forced, lexerVars, segVars, themeVars>>

\* Toggle returns the new state.
Toggle ==
    /\ enabled' = ~enabled
    /\ call' = [op |-> "Toggle", input |-> "", result |-> ~enabled]
    /\ UNCHANGED <<theme, forced, lexerVars, segVars, themeVars>>

IsEnabled ==
    /\ call' = [op |-> "IsEnabled", input |-> "", result |-> enabled]
    /\ UNCHANGED <<enabled, theme, forced, lexerVars, segVars, themeVars>>

SetTheme(name) ==
    /\ theme' = name
    /\ call' = [op |-> "SetTheme", input |-> "", result |-> ""]
    /\ UNCHANGED <<enabled, forced, lexerVars, segVars, themeVars>>

HighlightCall(in) ==
    /\ call' = [op |-> "Highlight", input |-> in,
                result |-> Highlight(enabled, ThemeByName(theme), in)]
    /\ UNCHANGED <<enabled, theme, forced, lexerVars, segVars, themeVars>>

HighlightForcedCall(in) ==
    /\ call' = [op |-> "HighlightForced", input |-> in,
                result |-> HighlightForced(enabled, ThemeByName(theme), in)]
    /\ UNCHANGED <<enabled, theme, forced, lexerVars, segVars, themeVars>>

HighlightShowOutputCall(in) ==
    /\ call' = [op |-> "HighlightShowOutput", input |-> in,
                result |-> HighlightShowOutput(enabled, ThemeByName(theme), in)]
    /\ UNCHANGED <<enabled, theme, forced, lexerVars, segVars, themeVars>>

NextHighlighter ==
    \/ Enable
    \/ Disable
    \/ Toggle
    \/ IsEnabled
    \/ \E name \in ThemeNames : SetTheme(name)
    \/ \E in \in HlInputs : HighlightCall(in)
    \/ \E in \in HlInputs : HighlightForcedCall(in)
    \/ \E in \in HlInputs : HighlightShowOutputCall(in)

SpecHighlighter == InitHighlighter /\ [][NextHighlighter]_vars

(***************************************************************************)
(* Properties                                                              *)
(***************************************************************************)

RECURSIVE ConcatValues(_)
ConcatValues(toks) ==
    IF toks = <<>> THEN "" ELSE toks[1].Value \o ConcatValues(Tail(toks))

RECURSIVE ConcatTexts(_)
ConcatTexts(segs) ==
    IF segs = <<>> THEN "" ELSE segs[1].text \o ConcatTexts(Tail(segs))

\* The texts of the control-sequence segments (esc = TRUE) or of the plain-text
\* segments (esc = FALSE), in order.
RECURSIVE TextsOf(_, _)
TextsOf(segs, esc) ==
    IF segs = <<>> THEN <<>>
    ELSE (IF segs[1].isEscape = esc THEN <<segs[1].text>> ELSE <<>>)
            \o TextsOf(Tail(segs), esc)

RECURSIVE ConcatStrings(_)
ConcatStrings(ss) == IF ss = <<>> THEN "" ELSE ss[1] \o ConcatStrings(Tail(ss))

\* a is b with some elements left out.
RECURSIVE IsSubsequence(_, _)
IsSubsequence(a, b) ==
    IF a = <<>> THEN TRUE
    ELSE IF b = <<>> THEN FALSE
    ELSE IF a[1] = b[1] THEN IsSubsequence(Tail(a), Tail(b))
    ELSE IsSubsequence(a, Tail(b))

\* The 0-based offset in the input at which segment k starts, were the segments
\* laid end to end (k = Len(segs) + 1 gives the total length).
RECURSIVE SegStart(_, _)
SegStart(segs, k) == IF k = 1 THEN 0 ELSE SegStart(segs, k - 1) + Len(segs[k - 1].text)

\* A token that scanWord made: a classified word.
IsClassifiedWord(tok) == tok.Type \notin {"Text", "String", "Comment", "Value"}

\* The pass went through the loop of Tokenize, not through the prompt path.
LoopPass == pc \in {"scanning", "done"} /\ ~promptPattern(lexer.input).ok

\* The highlighting call that has just returned found the highlighter enabled and
\* its input non-empty.
Rendered(op) == call.op = op /\ enabled /\ call.input # ""

\* C1: when Tokenize has returned, the Values of its tokens, concatenated in order,
\* are the input, byte for byte (the prompt path included).
C1_TokenizeLossless == pc = "done" => ConcatValues(tokens) = lexer.input

\* C2: for an input without escape bytes, with highlighting enabled, stripping the
\* codes from what Highlight or HighlightForced returns gives the input back.
C2_StripRecoversInput ==
    (/\ call.op \in {"Highlight", "HighlightForced"}
     /\ enabled
     /\ ~Contains(call.input, escapeChar))
        => StripANSI(call.result) = call.input

C4_ForcedKeepsSegmentOrder ==
    Rendered("HighlightForced") =>
        LET segs == extractSegments(call.input)
            colors == ThemeByName(theme)
            piece == [k \in 1..Len(segs) |->
                        IF segs[k].isEscape THEN segs[k].text
                        ELSE renderTokens(colors, Tokenize(New(segs[k].text)))]
            start == [k \in 1..(Len(segs) + 1) |->
                        Len(ConcatStrings(SubSeq(piece, 1, k - 1)))]
        IN  /\ Len(call.result) = start[Len(segs) + 1]
            /\ \A k \in 1..Len(segs) :
                    Slice(call.result, start[k], start[k + 1]) = piece[k]
            /\ IsSubsequence(TextsOf(segs, TRUE),
                             TextsOf(extractSegments(call.result), TRUE))

\* C4 witness: a forced call on an input with a control sequence between two texts
\* or beside one, whose rendering added colour.
C4_Witness ==
    /\ Rendered("HighlightForced")
    /\ TextsOf(extractSegments(call.input), TRUE) # <<>>
    /\ TextsOf(extractSegments(call.input), FALSE) # <<>>
    /\ call.result # call.input

\* C5: the segments of extractSegments, laid end to end, are the input: segment k is
\* the bytes of the input from the end of segment k-1, none is empty, and the last
\* ends where the input ends.
C5_SegmentsCoverInput ==
    "extractSegments" \in segDone =>
        /\ ConcatTexts(segments) = segInput
        /\ SegStart(segments, Len(segments) + 1) = Len(segInput)
        /\ \A k \in 1..Len(segments) :
                /\ segments[k].text # ""
                /\ segments[k].text =
                        Slice(segInput, SegStart(segments, k), SegStart(segments, k + 1))

\* C5 witness: an input that ends in a truncated control sequence after some text.
C5_Witness ==
    /\ "extractSegments" \in segDone
    /\ HasSuffix(segInput, escapeChar \o "[")
    /\ Len(segments) >= 2
    /\ ~segments[1].isEscape

\* A well-formed parameterized control sequence starts at p: escape byte, "[", a
\* run of parameter bytes, one final byte.  CSIEnd is the index of the final byte.
CSIEnd(x, p) == skipCSIParams(x, p + 2)

WellFormedCSIAt(x, p) ==
    /\ p + 2 < Len(x)
    /\ At(x, p) = escapeChar
    /\ At(x, p + 1) = csiBracket
    /\ CSIEnd(x, p) < Len(x)
    /\ isCSIFinalByte(At(x, CSIEnd(x, p)))

\* C6: every well-formed parameterized control sequence of the input lies wholly
\* inside one control-sequence segment.
C6_CSINeverSplit ==
    "extractSegments" \in segDone =>
        \A p \in 0..(Len(segInput) - 1) :
            WellFormedCSIAt(segInput, p) =>
                \E k \in 1..Len(segments) :
                    /\ segments[k].isEscape
                    /\ SegStart(segments, k) <= p
                    /\ CSIEnd(segInput, p) < SegStart(segments, k + 1)

\* C7: StripANSI returns the plain-text segments of extractSegments, concatenated.
C7_StripIsTextSegments ==
    {"extractSegments", "StripANSI"} \subseteq segDone =>
        stripped = ConcatStrings(TextsOf(segments, FALSE))

\* C8: Highlight returns its input when disabled, on an empty input, or when the
\* gate rejects the stripped text; HighlightForced and HighlightShowOutput return
\* their input when disabled or on an empty input.
C8_PassThrough ==
    /\ (/\ call.op = "Highlight"
        /\ (~enabled \/ call.input = "" \/ ~looksLikeCisco(StripANSI(call.input))))
            => call.result = call.input
    /\ (/\ call.op \in {"HighlightForced", "HighlightShowOutput"}
        /\ (~enabled \/ call.input = ""))
            => call.result = call.input

\* C8 witness: an enabled Highlight call whose input holds a control sequence and is
\* rejected by the gate.
C8_Witness ==
    /\ Rendered("Highlight")
    /\ HasANSI(call.input)
    /\ StripANSI(call.input) # ""
    /\ ~looksLikeCisco(StripANSI(call.input))
    /\ call.result = call.input

\* C9: under the configuration rules, after a word that is one of the four
\* value-consuming keywords the value-expected flag is set, and unquoted text that
\* follows the keyword on its line is one Value token that runs to the end of the
\* line.
C9_ValueKeywordsConsumeLine ==
    (LoopPass /\ lexer.parseMode # "Show") =>
        \A i \in 1..Len(tokens) :
            (IsClassifiedWord(tokens[i]) /\ ToLower(tokens[i].Value) \in valueKeywords) =>
                /\ i = Len(tokens) => lexer.expectingValue
                /\ (/\ i + 2 <= Len(tokens)
                    /\ tokens[i + 1].Type = "Text"
                    /\ ~Contains(tokens[i + 1].Value, "\n")
                    /\ At(tokens[i + 2].Value, 0) \notin {"\"", "'"})
                        => /\ tokens[i + 2].Type = "Value"
                           /\ ~Contains(tokens[i + 2].Value, "\n")
                           /\ i + 3 <= Len(tokens) => At(tokens[i + 3].Value, 0) = "\n"

\* The classified word before token i, if any: its index, or 0.
PrevWord(toks, i) ==
    IF \E j \in 1..(i - 1) : IsClassifiedWord(toks[j])
    THEN CHOOSE j \in 1..(i - 1) :
            /\ IsClassifiedWord(toks[j])
            /\ \A m \in (j + 1)..(i - 1) : ~IsClassifiedWord(toks[m])
    ELSE 0

\* A digit:digit word whose preceding classified word is `community`.
AfterCommunity(toks, i) ==
    /\ IsClassifiedWord(toks[i])
    /\ communityPattern(toks[i].Value)
    /\ PrevWord(toks, i) # 0
    /\ ToLower(toks[PrevWord(toks, i)].Value) = "community"

\* A Community token has a classified word `community` somewhere before it.
CommunityOnlyAfterKeyword ==
    \A i \in 1..Len(tokens) :
        tokens[i].Type = "Community" =>
            \E j \in 1..(i - 1) :
                IsClassifiedWord(tokens[j]) /\ ToLower(tokens[j].Value) = "community"

MaxWordFrags == 3

WordFrags ==
    {"community", " x ", "12:00", "no", " ", "shutdown", "vlan", "ntp", "AS1",
     "show ", "up/up", "R#"}

WordInputs == Concats(WordFrags, MaxWordFrags)

InitWords ==
    /\ \E in \in WordInputs : lexer = New(in)
    /\ tokens = <<>>
    /\ pc = "new"
    /\ HlNew /\ theme = "tokyonight"
    /\ ThemeIdle
    /\ SegIdle

SpecWords == InitWords /\ [][NextLexer]_vars

\* Token i is a digit:digit word, `community` is a classified word before it, and
\* at least one other classified word stands between the two.
AfterCommunityAndAnother(toks, i) ==
    /\ IsClassifiedWord(toks[i])
    /\ communityPattern(toks[i].Value)
    /\ PrevWord(toks, i) # 0
    /\ ToLower(toks[PrevWord(toks, i)].Value) # "community"
    /\ PrevWord(toks, PrevWord(toks, i)) # 0
    /\ ToLower(toks[PrevWord(toks, PrevWord(toks, i))].Value) = "community"

\* C11: a digit:digit word whose immediately preceding classified word is not
\* `community` is not Community, even when `community` stands one word further back.
C11_CommunityGateImmediate ==
    LoopPass =>
        \A i \in 1..Len(tokens) :
            AfterCommunityAndAnother(tokens, i) => tokens[i].Type # "Community"

\* The categories only classifyShowWord gives, and those only classifyConfigWord
\* gives (Value follows from the flag only classifyConfigWord sets).
ShowOnlyTypes ==
    {"StateGood", "StateBad", "StateWarning", "StateNeutral", "ColumnHeader",
     "StatusSymbol", "TimeDuration", "Percentage", "ByteSize", "RouteProtocol"}

ConfigOnlyTypes ==
    {"Negation", "ASN", "Command", "Section", "Protocol", "Action", "Operator",
     "Keyword", "Value"}

TypesOf(toks) == {toks[i].Type : i \in 1..Len(toks)}

\* A step of Tokenize (not a call of SetParseMode) keeps a resolved mode and a set
\* detected flag; when it changes the mode, the mode was Auto and undetected, the
\* new mode is Config or Show, the flag is set, and the step classified the first
\* word of the pass.
ModeStableStep ==
    pc' # "new" =>
        /\ lexer.parseMode # "Auto" => lexer'.parseMode = lexer.parseMode
        /\ lexer.detectedMode =>
                lexer'.detectedMode /\ lexer'.parseMode = lexer.parseMode
        /\ lexer'.parseMode # lexer.parseMode =>
                /\ lexer.parseMode = "Auto" /\ ~lexer.detectedMode
                /\ lexer'.parseMode \in {"Config", "Show"} /\ lexer'.detectedMode
                /\ \A i \in 1..Len(tokens) : ~IsClassifiedWord(tokens[i])
                /\ Len(tokens') = Len(tokens) + 1
                /\ IsClassifiedWord(tokens'[Len(tokens')])

\* The words of one loop pass are classified under one rule set.
OneRuleSet ==
    LoopPass =>
        \/ TypesOf(tokens) \cap ShowOnlyTypes = {}
        \/ TypesOf(tokens) \cap ConfigOnlyTypes = {}

\* C12: within one lexer the mode changes at most once, from Auto to Config or Show
\* at the first word classification; a resolved or explicitly set mode is never
\* changed by Tokenize, the detector is not run again, and every word of the pass is
\* classified under the same rule set.
C12_ModeStability == [][ModeStableStep]_vars /\ []OneRuleSet

\* C12 witness: a finished pass of several words in Show mode over an input the
\* detector would have resolved to Config: the mode set before the pass was kept.
C12_Witness ==
    /\ pc = "done" /\ LoopPass
    /\ lexer.parseMode = "Show"
    /\ detectParseMode(lexer) = "Config"
    /\ Cardinality({i \in 1..Len(tokens) : IsClassifiedWord(tokens[i])}) >= 2

(***************************************************************************)
(* Passes over inputs that carry mode indicators                           *)
(***************************************************************************)

\* The number of fragments an input of indicators is made of, at most.
MaxDetectFrags == 3

DetectFrags == {"!\n", "\n!", "Show ", "up/up", "no ", "a  b  c", "X"}

DetectInputs == Concats(DetectFrags, MaxDetectFrags)

InitDetect ==
    /\ \E in \in DetectInputs : lexer = New(in)
    /\ tokens = <<>>
    /\ pc = "new"
    /\ HlNew /\ theme = "tokyonight"
    /\ ThemeIdle
    /\ SegIdle

SpecDetect == InitDetect /\ [][NextLexer]_vars

\* The sample the detector looks at: the first bytes of the input.
SampleOf(input) ==
    IF Len(input) > parseModeDetectionSampleSize
    THEN SubSeq(input, 1, parseModeDetectionSampleSize)
    ELSE input

\* How many strings of a list occur in the case-folded sample.
IndicatorsIn(sample, indicators) ==
    Cardinality({k \in 1..Len(indicators) :
        \E i \in 0..(Len(sample) - Len(indicators[k])) :
            ToLower(SubSeq(sample, i + 1, i + Len(indicators[k]))) = indicators[k]})

\* A line of the sample that is a `!` and nothing else, newline included.
StandaloneBang(sample) ==
    \E i \in 0..(Len(sample) - 2) :
        /\ i = 0 \/ At(sample, i - 1) = "\n"
        /\ At(sample, i) = "!"
        /\ At(sample, i + 1) = "\n"

\* Three words with runs of two or more white-space bytes between them.
Tabular(sample) ==
    \E a, b, c, d \in 1..Len(sample) :
        /\ a + 2 <= b /\ b < c /\ c + 2 <= d
        /\ At(sample, a - 1) \in WordBytes
        /\ \A i \in a..(b - 1) : At(sample, i) \in SpaceBytes
        /\ \A i \in b..(c - 1) : At(sample, i) \in WordBytes
        /\ \A i \in c..(d - 1) : At(sample, i) \in SpaceBytes
        /\ d < Len(sample) /\ At(sample, d) \in WordBytes

ConfigScoreOf(input) ==
    IndicatorsIn(SampleOf(input), ConfigIndicators)
        + (IF StandaloneBang(SampleOf(input)) THEN 2 ELSE 0)

ShowScoreOf(input) ==
    IndicatorsIn(SampleOf(input), ShowIndicators)
        + (IF Tabular(SampleOf(input)) THEN 2 ELSE 0)

\* The step of a pass that runs the detector.
DetectorStep == pc' # "new" /\ ~lexer.detectedMode /\ lexer'.detectedMode

\* C13: the detector returns Show exactly when showScore >= 2 and showScore >
\* configScore, and Config otherwise; configScore counts the configuration
\* indicators in the sample plus 2 for a standalone `!` line, showScore the show
\* indicators plus 2 for tabular data.
C13_DetectorRule ==
    [][DetectorStep =>
        lexer'.parseMode =
            IF /\ ShowScoreOf(lexer.input) >= 2
               /\ ShowScoreOf(lexer.input) > ConfigScoreOf(lexer.input)
            THEN "Show" ELSE "Config"]_vars

\* C13 witness: the detector has resolved a tie of 2 against 2 to Config.
C13_Witness ==
    /\ pc = "done" /\ LoopPass
    /\ lexer.parseMode = "Config"
    /\ ShowScoreOf(lexer.input) = 2
    /\ ConfigScoreOf(lexer.input) = 2
    /\ \E i \in 1..Len(tokens) : IsClassifiedWord(tokens[i])

\* The rules of the configuration classifier in the order of the claim; rule 9 is
\* the shared patterns, which take every word the others leave.
ConfigRuleTypes ==
    <<"Negation", "ASN", "Command", "Section", "Protocol", "Action", "Operator",
      "Keyword">>

ConfigRuleMatches(k, word) ==
    CASE k = 1 -> ToLower(word) = "no"
      [] k = 2 -> asnPattern(word)
      [] k = 3 -> ToLower(word) \in commands
      [] k = 4 -> ToLower(word) \in sections
      [] k = 5 -> ToLower(word) \in protocols
      [] k = 6 -> ToLower(word) \in actions
      [] k = 7 -> ToLower(word) \in operators
      [] k = 8 -> ToLower(word) \in keywords
      [] OTHER -> TRUE

FirstConfigRule(word) ==
    CHOOSE k \in 1..9 :
        ConfigRuleMatches(k, word) /\ \A j \in 1..(k - 1) : ~ConfigRuleMatches(j, word)

\* C14: under the configuration rules a word gets the category of the first rule
\* that matches it, in the order `no`, ASN, Command, Section, Protocol, Action,
\* Operator, Keyword, shared patterns.
C14_ConfigPrecedence ==
    (LoopPass /\ lexer.parseMode # "Show") =>
        \A i \in 1..Len(tokens) :
            IsClassifiedWord(tokens[i]) =>
                LET k == FirstConfigRule(tokens[i].Value)
                IN  IF k <= 8 THEN tokens[i].Type = ConfigRuleTypes[k]
                    ELSE tokens[i].Type \notin
                            {ConfigRuleTypes[j] : j \in 1..8} \cup ShowOnlyTypes

\* C14 witness: "no vlan", whose second word is in the Command, Section and Keyword
\* sets, has been tokenized as Negation, Text, Command.
C14_Witness ==
    /\ pc = "done" /\ LoopPass
    /\ lexer.input = "no vlan"
    /\ <<tokens[1].Type, tokens[2].Type, tokens[3].Type>> = <<"Negation", "Text", "Command">>

(***************************************************************************)
(* Passes over prompt lines                                                *)
(***************************************************************************)

\* The number of fragments a prompt line is made of, at most.
MaxPromptFrags == 4

PromptFrags == {" ", "Router", "(config-if)", "#", ">", "x", "\n"}

PromptInputs == Concats(PromptFrags, MaxPromptFrags)

InitPrompt ==
    /\ \E in \in PromptInputs : lexer = New(in)
    /\ tokens = <<>>
    /\ pc = "new"
    /\ HlNew /\ theme = "tokyonight"
    /\ ThemeIdle
    /\ SegIdle

SpecPrompt == InitPrompt /\ [][NextLexer]_vars

\* Type and Value of the tokens, in order.
Shapes(toks) == [i \in 1..Len(toks) |-> <<toks[i].Type, toks[i].Value>>]

\* What the claim says a prompt line with groups m starts with.
PromptHead(m) ==
    (IF m[1] # "" THEN <<<<"Text", m[1]>>>> ELSE <<>>)
        \o <<<<"PromptHost", m[2]>>>>
        \o (IF m[3] # "" THEN <<<<"PromptMode", m[3]>>>> ELSE <<>>)
        \o <<<<IF m[4] = ">" THEN "PromptOper" ELSE "PromptConf", m[4]>>>>

\* C15: for an input that matches the prompt grammar Tokenize emits, in this order,
\* the leading white space (if any) as Text, the hostname as PromptHost, the mode
\* string (if present) as PromptMode, and the terminator as PromptOper for > or
\* PromptConf for #.
C15_PromptTokens ==
    (pc = "done" /\ promptPattern(lexer.input).ok) =>
        LET head == PromptHead(promptPattern(lexer.input).m)
        IN  /\ Len(tokens) >= Len(head)
            /\ SubSeq(Shapes(tokens), 1, Len(head)) = head
            /\ lexer.input = "Router(config-if)#" =>
                    Shapes(tokens) = <<<<"PromptHost", "Router">>,
                                       <<"PromptMode", "(config-if)">>,
                                       <<"PromptConf", "#">>>>
            /\ lexer.input = "Router>" =>
                    Shapes(tokens) = <<<<"PromptHost", "Router">>, <<"PromptOper", ">">>>>

\* C15 witness: " Router(config-if)#" has been tokenized into four tokens.
C15_Witness ==
    /\ pc = "done"
    /\ lexer.input = " Router(config-if)#"
    /\ Len(tokens) = 4
    /\ tokens[3].Type = "PromptMode"

\* How many of the tokens are prompt terminators: one for each pass, the outer or a
\* nested one, that took the prompt path.
PromptPasses(toks) ==
    Cardinality({i \in 1..Len(toks) : toks[i].Type \in {"PromptOper", "PromptConf"}})

\* C16: the nested Tokenize call made for the text after a prompt never takes the
\* prompt path itself: a finished pass has taken the prompt path at most once.
C16_OneNestedPass == pc = "done" => PromptPasses(tokens) <= 1

\* What a call on the Highlighter does to the enabled flag.
EnableStateStep ==
    /\ call'.op = "Enable" => enabled'
    /\ call'.op = "Disable" => ~enabled'
    /\ call'.op = "Toggle" => enabled' = ~enabled /\ call'.result = enabled'
    /\ call'.op = "IsEnabled" => enabled' = enabled /\ call'.result = enabled
    /\ call'.op \notin {"Enable", "Disable", "Toggle"} => enabled' = enabled

\* C17: a new Highlighter is enabled; the flag is true after Enable, false after
\* Disable, negated by Toggle, which returns the new value; IsEnabled returns the
\* flag and no other call changes it.
C17_EnableState == (call.op = "none" => enabled) /\ [][EnableStateStep]_vars

\* C17 witness: a Toggle of a disabled Highlighter has returned TRUE.
C17_Witness == call.op = "Toggle" /\ enabled /\ call.result = TRUE


\* ---------------------------------------------------------------------------
\* Calls on Theme instances by a single caller.

\* t.SetColor(tokenType, color) on the instance t.
SetColorCall(t, tokenType, color) ==
    /\ themes' = [themes EXCEPT ![t] = SetColor(themes[t], tokenType, color)]
    /\ tcall' = [op |-> "SetColor", theme |-> t, type |-> tokenType,
                 color |-> color, result |-> ""]
    /\ UNCHANGED <<mu, threads, written, lexerVars, hlVars, segVars>>

\* t.GetColor(tokenType) on the instance t.
GetColorCall(t, tokenType) ==
    /\ tcall' = [op |-> "GetColor", theme |-> t, type |-> tokenType,
                 color |-> "", result |-> GetColor(themes[t], tokenType)]
    /\ UNCHANGED <<themes, mu, threads, written, lexerVars, hlVars, segVars>>

NextTheme ==
    \/ \E t \in ThemeIds, c \in ThemeTypes, s \in ThemeColors : SetColorCall(t, c, s)
    \/ \E t \in ThemeIds, c \in ThemeTypes : GetColorCall(t, c)

InitTheme == ThemeIdle /\ LexerIdle /\ HlNew /\ theme = "tokyonight" /\ SegIdle

SpecTheme == InitTheme /\ [][NextTheme]_vars

\* The categories a caller can name: the enumeration and one outside it.
AllThemeTypes == TokenTypes \cup ThemeTypes

\* A SetColor(c, s) step leaves GetColor(c) = s on its instance, every other
\* category of that instance as it was, and every other instance as it was.
SetColorFrame ==
    (tcall'.op = "SetColor" /\ <<themes, tcall>>' # <<themes, tcall>>) =>
        LET t == tcall'.theme
            c == tcall'.type
        IN  /\ GetColor(themes'[t], c) = tcall'.color
            /\ \A d \in AllThemeTypes \ {c} :
                    GetColor(themes'[t], d) = GetColor(themes[t], d)
            /\ \A u \in ThemeIds \ {t} : themes'[u] = themes[u]

\* A GetColor(c) step changes no map and returns the colour mapped to c, or the
\* empty string when c has no mapping.
GetColorFrame ==
    (tcall'.op = "GetColor" /\ tcall' # tcall) =>
        LET t == tcall'.theme
            c == tcall'.type
        IN  /\ themes' = themes
            /\ tcall'.result = IF c \in DOMAIN themes[t] THEN themes[t][c] ELSE ""
            /\ (tcall.op = "SetColor" /\ tcall.theme = t /\ tcall.type = c)
                    => tcall'.result = tcall.color

\* C18: after SetColor(c, s) on a Theme, GetColor(c) returns s, the colours of
\* the other categories of that Theme are unchanged and other Theme instances
\* are unaffected; GetColor of a category with no mapping returns "".
C18_ThemeSetGet ==
    /\ [][SetColorFrame /\ GetColorFrame]_vars
    /\ [](\A t \in ThemeIds : "Unknown" \notin DOMAIN themes[t]
                => GetColor(themes[t], "Unknown") = "")

\* GetColor returns the colour set on one instance while the other instance
\* still has its default, and an unmapped category reads as "".
C18_Witness ==
    /\ tcall.op = "GetColor" /\ tcall.theme = "a" /\ tcall.type = "Command"
    /\ tcall.result = Ansi("35")
    /\ themes["b"] = DefaultTheme
    /\ GetColor(themes["b"], "Unknown") = ""
    /\ themes["a"]["Keyword"] = DefaultTheme["Keyword"]


\* ---------------------------------------------------------------------------
\* Concurrent SetColor and GetColor calls on the shared Theme.  Theme.mu is a
\* sync.RWMutex: Lock waits until no writer and no reader holds it, RLock waits
\* until no writer holds it.  The store into the map is not atomic: between its
\* beginning and its end the entry holds no colour that was ever set.

Shared == themes[SharedTheme]

SetThread(th, rec) == threads' = [threads EXCEPT ![th] = rec]

\* A thread enters t.SetColor(tokenType, color).
BeginSetColor(th, tokenType, color) ==
    /\ threads[th].pc = "idle"
    /\ SetThread(th, [pc |-> "Lock", op |-> "SetColor", type |-> tokenType,
                      color |-> color, result |-> ""])
    /\ UNCHANGED <<themes, tcall, mu, written, lexerVars, hlVars, segVars>>

\* RLock that does not wait for the writer.
RLockNoWait(th) ==
    /\ threads[th].pc = "RLock"
    /\ mu' = [mu EXCEPT !.readers = @ \cup {th}]
    /\ SetThread(th, [threads[th] EXCEPT !.pc = "read"])
    /\ UNCHANGED <<themes, tcall, written, lexerVars, hlVars, segVars>>

\* t.mu.Lock() in SetColor.
Lock(th) ==
    /\ threads[th].pc = "Lock"
    /\ mu.writer = "none" /\ mu.readers = {}
    /\ mu' = [mu EXCEPT !.writer = th]
    /\ SetThread(th, [threads[th] EXCEPT !.pc = "write"])
    /\ UNCHANGED <<themes, tcall, written, lexerVars, hlVars, segVars>>

\* t.colors[tokenType] = color begins.
WriteBegin(th) ==
    /\ threads[th].pc = "write"
    /\ themes' = [themes EXCEPT ![SharedTheme] = SetColor(@, threads[th].type, Torn)]
    /\ SetThread(th, [threads[th] EXCEPT !.pc = "store"])
    /\ UNCHANGED <<tcall, mu, written, lexerVars, hlVars, segVars>>

\* t.colors[tokenType] = color ends.
WriteEnd(th) ==
    /\ threads[th].pc = "store"
    /\ themes' = [themes EXCEPT
                    ![SharedTheme] = SetColor(@, threads[th].type, threads[th].color)]
    /\ written' = [written EXCEPT ![threads[th].type] = @ \cup {threads[th].color}]
    /\ SetThread(th, [threads[th] EXCEPT !.pc = "Unlock"])
    /\ UNCHANGED <<tcall, mu, lexerVars, hlVars, segVars>>

\* The deferred t.mu.Unlock() of SetColor.
Unlock(th) ==
    /\ threads[th].pc = "Unlock"
    /\ mu' = [mu EXCEPT !.writer = "none"]
    /\ SetThread(th, [threads[th] EXCEPT !.pc = "idle"])
    /\ UNCHANGED <<themes, tcall, written, lexerVars, hlVars, segVars>>

\* A thread enters t.GetColor(tokenType).
BeginGetColor(th, tokenType) ==
    /\ threads[th].pc = "idle"
    /\ SetThread(th, [pc |-> "RLock", op |-> "GetColor", type |-> tokenType,
                      color |-> "", result |-> ""])
    /\ UNCHANGED <<themes, tcall, mu, written, lexerVars, hlVars, segVars>>

\* t.mu.RLock() in GetColor.
RLock(th) ==
    /\ threads[th].pc = "RLock"
    /\ mu.writer = "none"
    /\ mu' = [mu EXCEPT !.readers = @ \cup {th}]
    /\ SetThread(th, [threads[th] EXCEPT !.pc = "read"])
    /\ UNCHANGED <<themes, tcall, written, lexerVars, hlVars, segVars>>

\* color, ok := t.colors[tokenType] and the choice of the value to return.
Read(th) ==
    /\ threads[th].pc = "read"
    /\ SetThread(th, [threads[th] EXCEPT
                        !.pc = "RUnlock",
                        !.result = GetColor(Shared, threads[th].type)])
    /\ UNCHANGED <<themes, tcall, mu, written, lexerVars, hlVars, segVars>>

\* The deferred t.mu.RUnlock() of GetColor; the call returns its result.
RUnlock(th) ==
    /\ threads[th].pc = "RUnlock"
    /\ mu' = [mu EXCEPT !.readers = @ \ {th}]
    /\ SetThread(th, [threads[th] EXCEPT !.pc = "idle"])
    /\ UNCHANGED <<themes, tcall, written, lexerVars, hlVars, segVars>>

NextThemeRace ==
    \/ \E th \in Threads, c \in ThemeTypes, s \in ThemeColors : BeginSetColor(th, c, s)
    \/ \E th \in Threads : Lock(th)
    \/ \E th \in Threads : WriteBegin(th)
    \/ \E th \in Threads : WriteEnd(th)
    \/ \E th \in Threads : Unlock(th)
    \/ \E th \in Threads, c \in ThemeTypes : BeginGetColor(th, c)
    \/ \E th \in Threads : RLock(th)
    \/ \E th \in Threads : Read(th)
    \/ \E th \in Threads : RUnlock(th)

SpecThemeRace == InitTheme /\ [][NextThemeRace]_vars

\* The threads between the beginning and the end of a store into the map, and
\* the threads about to read the map.
Storing == {th \in Threads : threads[th].pc \in {"write", "store"}}

Reading == {th \in Threads : threads[th].pc = "read"}

\* C19: with SetColor and GetColor called concurrently on one Theme, a
\* GetColor(c) returns a colour that was fully written for c, never a partial
\* or foreign value, and no read of the colour map overlaps a write to it.
C19_ThemeRaceFree ==
    /\ \A th \in Threads :
            (threads[th].op = "GetColor" /\ threads[th].pc \in {"RUnlock", "idle"})
                => /\ threads[th].result # Torn
                   /\ threads[th].result \in written[threads[th].type]
    /\ (Storing = {} \/ Reading = {})
    /\ Cardinality(Storing) <= 1

\* A reader holds the lock with a colour that was set before, while the other
\* thread waits in Lock to replace that colour.
C19_Witness ==
    /\ threads["t1"].op = "GetColor" /\ threads["t1"].pc = "RUnlock"
    /\ threads["t1"].type = "Command" /\ threads["t1"].result = Ansi("35")
    /\ threads["t2"].op = "SetColor" /\ threads["t2"].pc = "Lock"
    /\ threads["t2"].type = "Command" /\ threads["t2"].color = ""
    /\ mu.readers = {"t1"}

\* C20: the operational-output categories appear in the output of Tokenize only
\* when that lexer is in Show mode; a lexer whose mode is Config, set explicitly
\* or resolved from Auto, emits no token of these categories.
C20_ShowOnlyInShowMode ==
    (pc = "done" /\ lexer.parseMode # "Show")
        => TypesOf(tokens) \cap ShowOnlyTypes = {}


\* The offset in the input of the k-th token when the tokens are laid end to
\* end, and the 1-based line and column of the byte at an offset.
TokStart(toks, k) == SumLen(SubSeq(toks, 1, k - 1))

NewlinesBefore(input, p) ==
    {i \in 0..(p - 1) : i < Len(input) /\ At(input, i) = "\n"}

LineAt(input, p) == 1 + Cardinality(NewlinesBefore(input, p))

ColumnAt(input, p) ==
    LET nls == NewlinesBefore(input, p)
        lineStart == IF nls = {} THEN 0
                     ELSE 1 + CHOOSE i \in nls : \A j \in nls : j <= i
    IN  1 + p - lineStart

\* C21: every token returned by Tokenize carries the 1-based line and column of
\* its first byte in the input: Line is 1 plus the newlines before it, Column is
\* 1 plus the bytes since the last newline or the start of the input.
C21_TokenPositions ==
    pc = "done" =>
        \A k \in 1..Len(tokens) :
            /\ tokens[k].Line = LineAt(lexer.input, TokStart(tokens, k))
            /\ tokens[k].Column = ColumnAt(lexer.input, TokStart(tokens, k))


\* ---------------------------------------------------------------------------
\* Inputs made of comment marks, line ends, quotes, words and prompts.

MaxCommentFrags == 4

CommentFrags == {"!", "\n", "\"", "x", " ", "R#", "description"}

CommentInputs == Concats(CommentFrags, MaxCommentFrags)

InitComment ==
    /\ \E in \in CommentInputs : lexer = New(in)
    /\ tokens = <<>>
    /\ pc = "new"
    /\ HlNew /\ theme = "tokyonight"
    /\ ThemeIdle
    /\ SegIdle

SpecComment == InitComment /\ [][NextLexer]_vars

\* The offset of the end of the line that holds offset p: the next newline, or
\* the end of the input.
RECURSIVE LineEnd(_, _)
LineEnd(input, p) ==
    IF p >= Len(input) \/ At(input, p) = "\n" THEN p ELSE LineEnd(input, p + 1)

\* The offsets of the input where a `!` stands at column 1.
BangsAtColumn1(input) ==
    {p \in 0..(Len(input) - 1) : At(input, p) = "!" /\ ColumnAt(input, p) = 1}

CommentTokens(toks) == {k \in 1..Len(toks) : toks[k].Type = "Comment"}

\* C22: a `!` at column 1 starts a Comment token that runs to the end of its
\* line and never contains the newline, whatever the line contains; a `!` that
\* is not at column 1 does not start a Comment token.
C22_CommentAtColumn1 ==
    pc = "done" =>
        /\ \A p \in BangsAtColumn1(lexer.input) :
                \E k \in CommentTokens(tokens) :
                    /\ TokStart(tokens, k) = p
                    /\ tokens[k].Value = Slice(lexer.input, p, LineEnd(lexer.input, p))
        /\ \A k \in CommentTokens(tokens) :
                /\ TokStart(tokens, k) \in BangsAtColumn1(lexer.input)
                /\ ~Contains(tokens[k].Value, "\n")


\* ---------------------------------------------------------------------------
\* Inputs made of quotes, backslashes, words, blanks, line ends and prompts.

MaxQuoteFrags == 4

QuoteFrags == {"\"", "'", "\\", "x", " ", "\n", "R#"}

QuoteInputs == Concats(QuoteFrags, MaxQuoteFrags)

InitQuote ==
    /\ \E in \in QuoteInputs : lexer = New(in)
    /\ tokens = <<>>
    /\ pc = "new"
    /\ HlNew /\ theme = "tokyonight"
    /\ ThemeIdle
    /\ SegIdle

SpecQuote == InitQuote /\ [][NextLexer]_vars

QuoteBytes == {"\"", "'"}

\* The tokens whose text begins with a quote character.
QuotedTokens(toks) ==
    {k \in 1..Len(toks) : toks[k].Value # "" /\ At(toks[k].Value, 0) \in QuoteBytes}

\* The number of backslashes that stand directly before offset p and after
\* offset s.
RECURSIVE BackslashesBefore(_, _, _)
BackslashesBefore(input, s, p) ==
    IF p - 1 > s /\ At(input, p - 1) = "\\"
    THEN 1 + BackslashesBefore(input, s, p - 1)
    ELSE 0

\* The offsets after s that hold the quote character of offset s and are not
\* escaped: each backslash escapes the one character after it.
ClosingQuotes(input, s) ==
    {p \in (s + 1)..(Len(input) - 1) :
        /\ At(input, p) = At(input, s)
        /\ BackslashesBefore(input, s, p) % 2 = 0}

\* Where a quoted token that starts at offset s ends.
QuotedEnd(input, s) ==
    LET cq == ClosingQuotes(input, s)
    IN  IF cq = {} THEN Len(input)
        ELSE 1 + CHOOSE p \in cq : \A q \in cq : p <= q

\* The offsets at which the k-th token can start: where the tokens are laid end
\* to end, the end of the tokens before it; after a prompt, whose tokens are not
\* laid end to end, any offset of the input.
StartsOf(input, toks, k) ==
    IF promptPattern(input).ok THEN 0..(Len(input) - 1)
    ELSE {TokStart(toks, k)} \cap (0..(Len(input) - 1))

\* C23: a quoted token starts at a quote character and ends just after the
\* first later occurrence of that quote character that no backslash escapes;
\* a backslash escapes exactly the one following character; without a closing
\* quote the token runs to the end of the input.
C23_QuotedTokenExtent ==
    pc = "done" =>
        \A k \in QuotedTokens(tokens) :
            \E s \in StartsOf(lexer.input, tokens, k) :
                /\ At(lexer.input, s) \in QuoteBytes
                /\ tokens[k].Value = Slice(lexer.input, s, QuotedEnd(lexer.input, s))


\* The turn of the loop that Tokenize takes next moves the cursor forward by at
\* least one byte, within the same input, and the loop runs only while bytes
\* are left.
ScanAdvances ==
    pc = "scanning" =>
        LET s == nextToken(lexer)
        IN  /\ lexer.pos < Len(lexer.input)
            /\ s.lex.pos >= lexer.pos + 1
            /\ s.lex.pos <= Len(lexer.input)
            /\ s.lex.input = lexer.input
            /\ s.tok.Value # ""

\* Every token emitted so far has text.
TokensNonEmpty == \A k \in 1..Len(tokens) : tokens[k].Value # ""

\* The nested pass for the command after a prompt gets a shorter input.
NestedInputShorter ==
    LET p == promptPattern(lexer.input)
    IN  p.ok => Len(TrimSpace(p.m[5])) < Len(lexer.input)

\* C24: Tokenize terminates with a token sequence for every input: every scan
\* step advances the cursor by at least one byte, so the loop takes at most as
\* many turns as the input has bytes; every emitted token has non-empty text;
\* and the nested pass for a prompt's trailing command runs on a strictly
\* shorter input.
C24_TokenizeTerminates ==
    /\ ScanAdvances
    /\ TokensNonEmpty
    /\ NestedInputShorter
    /\ lexer.pos <= Len(lexer.input)

\* Tokenize has returned for a malformed input: a comment mark after a word,
\* an unclosed quote, and nothing after it.
C24_Witness ==
    /\ pc = "done"
    /\ lexer.input = "x!\""
    /\ lexer.pos = Len(lexer.input)
    /\ Len(tokens) = 2
    /\ tokens[2].Type = "String"


\* ---------------------------------------------------------------------------
\* One Tokenize pass and the segmenter's operations, each on its own short input
\* that may be empty.

MaxEmptyLen == 1

EmptyBytes == {"x", " ", "\n", escapeChar}

EmptyInputs == Concats(EmptyBytes, MaxEmptyLen)

InitEmpty ==
    /\ \E in \in EmptyInputs : lexer = New(in)
    /\ tokens = <<>>
    /\ pc = "new"
    /\ segInput \in EmptyInputs
    /\ segments = <<>> /\ stripped = "" /\ hasANSI = FALSE /\ segDone = {}
    /\ HlNew /\ theme = "tokyonight"
    /\ ThemeIdle

SpecEmpty == InitEmpty /\ [][NextLexer \/ NextSegmenter]_vars

\* C25: a zero-length input yields an empty result, never a single empty
\* element: Tokenize returns no tokens and extractSegments returns no segments.
C25_EmptyInput ==
    /\ (pc = "done" /\ lexer.input = "") => tokens = <<>>
    /\ ("extractSegments" \in segDone /\ segInput = "") => segments = <<>>

\* Tokenize and extractSegments have both returned for the empty input.
C25_Witness ==
    /\ pc = "done" /\ lexer.input = "" /\ Len(tokens) = 0
    /\ "extractSegments" \in segDone /\ segInput = "" /\ Len(segments) = 0


\* C26: the value-expected flag reaches no further than the line of the keyword
\* that set it: no line end stands between a Value token and the word before
\* it, so a keyword that ends its line makes no token of a later line a Value.
C26_ValueFlagStaysOnLine ==
    pc = "done" =>
        \A k \in 1..Len(tokens) :
            tokens[k].Type = "Value" =>
                \A m \in (PrevWord(tokens, k) + 1)..(k - 1) :
                    ~Contains(tokens[m].Value, "\n")


\* ---------------------------------------------------------------------------
\* Inputs made of words of every kind of configuration rule.

MaxContextFrags == 3

ContextFrags ==
    {"community ", "eq ", "AS1 ", "no ", "12:00", "x", "shutdown ", "ntp ", "12:00 "}

ContextInputs == Concats(ContextFrags, MaxContextFrags)

InitContext ==
    /\ \E in \in ContextInputs : lexer = New(in)
    /\ tokens = <<>>
    /\ pc = "new"
    /\ HlNew /\ theme = "tokyonight"
    /\ ThemeIdle
    /\ SegIdle

SpecContext == InitContext /\ [][NextLexer]_vars

\* The categories whose words the claim says overwrite the last-token context.
ContextTypes == {"Command", "Section", "Protocol", "Action", "Keyword", "Negation"}

\* A turn of the loop of Tokenize that emits a token of one of the categories
\* sets the context to the lowercase word; any other turn leaves it as it was.
ContextStep ==
    (pc = "scanning" /\ Len(tokens') = Len(tokens) + 1) =>
        LET t == tokens'[Len(tokens')]
        IN  IF t.Type \in ContextTypes
            THEN lexer'.lastToken = ToLower(t.Value)
            ELSE lexer'.lastToken = lexer.lastToken

ContextStepOperator ==
    (pc = "scanning" /\ Len(tokens') = Len(tokens) + 1) =>
        LET t == tokens'[Len(tokens')]
        IN  IF t.Type \in ContextTypes \cup {"Operator"}
            THEN lexer'.lastToken = ToLower(t.Value)
            ELSE lexer'.lastToken = lexer.lastToken

C28_QuotedIsString ==
    pc = "done" => \A k \in QuotedTokens(tokens) : tokens[k].Type = "String"

\* A turn of the loop of Tokenize that starts at a quote character emits a
\* token that begins with the quote, typed Value when the value-expected flag
\* was set and String when it was not, and leaves the flag cleared.
QuotedStep ==
    (/\ pc = "scanning"
     /\ lexer.pos < Len(lexer.input)
     /\ At(lexer.input, lexer.pos) \in QuoteBytes
     /\ lexer' # lexer)
        => /\ Len(tokens') = Len(tokens) + 1
           /\ LET t == tokens'[Len(tokens')]
              IN  /\ At(t.Value, 0) = At(lexer.input, lexer.pos)
                  /\ t.Type = IF lexer.expectingValue THEN "Value" ELSE "String"
           /\ ~lexer'.expectingValue

\* C28, amended: outside a comment line, a token that begins with a quote
\* character is categorized String when the value-expected flag is not set at
\* that point, and Value when it is set; the flag is cleared either way.
C28_QuotedIsStringOrValue == [][QuotedStep]_vars

\* A quoted text directly after a value-consuming keyword has become a Value.
C28_Witness ==
    /\ pc = "done"
    /\ lexer.input = "description \"x"
    /\ Len(tokens) = 3
    /\ tokens[3].Type = "Value" /\ tokens[3].Value = "\"x"
    /\ ~lexer.expectingValue


\* C29: the escape predicate agrees with the stripping operation: HasANSI(x) is
\* true exactly when x contains at least one control-sequence segment, that is,
\* exactly when StripANSI(x) differs from x.
C29_HasANSIAgreesWithStrip ==
    segDone = {"extractSegments", "StripANSI", "HasANSI"} =>
        /\ hasANSI <=> (\E k \in 1..Len(segments) : segments[k].isEscape)
        /\ hasANSI <=> (stripped # segInput)


\* ---------------------------------------------------------------------------
\* One HighlightForced call taken segment by segment, with SetTheme calls of
\* another goroutine between its steps.  Every access to h.theme and h.enabled
\* is under h.mu, so each step below is atomic.

MaxForcedFrags == 3

ForcedFrags == {"no ", escapeChar \o "[K"}

ForcedInputs == Concats(ForcedFrags, MaxForcedFrags)

\* HighlightForced up to the loop of highlightTokens: the IsEnabled and empty
\* input checks, and segments := extractSegments(input).
ForcedBegin(in) ==
    /\ forced.pc = "idle"
    /\ forced' = IF ~enabled \/ in = ""
                 THEN [NoForced EXCEPT !.pc = "done", !.input = in, !.buf = in]
                 ELSE [NoForced EXCEPT !.pc = "loop", !.input = in,
                                       !.segments = extractSegments(in)]
    /\ UNCHANGED <<enabled, theme, call, lexerVars, segVars, themeVars>>

\* One turn of the loop of highlightTokens: a control sequence is copied, a
\* text segment is tokenized and rendered by renderTokens, which reads h.theme.
ForcedSegment ==
    /\ forced.pc = "loop"
    /\ forced.k <= Len(forced.segments)
    /\ LET seg == forced.segments[forced.k]
       IN  forced' = [forced EXCEPT
                        !.k = @ + 1,
                        !.buf = @ \o RenderSegment(ThemeByName(theme), seg),
                        !.used = IF seg.isEscape THEN @ ELSE @ \cup {theme}]
    /\ UNCHANGED <<enabled, theme, call, lexerVars, segVars, themeVars>>

\* highlightTokens returns its buffer.
ForcedEnd ==
    /\ forced.pc = "loop"
    /\ forced.k > Len(forced.segments)
    /\ forced' = [forced EXCEPT !.pc = "done"]
    /\ UNCHANGED <<enabled, theme, call, lexerVars, segVars, themeVars>>

NextForcedRace ==
    \/ \E in \in ForcedInputs : ForcedBegin(in)
    \/ ForcedSegment
    \/ ForcedEnd
    \/ \E name \in ThemeNames : SetTheme(name)

SpecForcedRace == InitHighlighter /\ [][NextForcedRace]_vars

\* C30: one call of HighlightForced colours its whole output from a single
\* theme: under any interleaving with a concurrent SetTheme, all text segments
\* of the call are rendered with the same Theme, so the result is what
\* highlightTokens yields under one of the themes.
C30_ForcedSingleTheme ==
    forced.pc = "done" =>
        /\ Cardinality(forced.used) <= 1
        /\ \E name \in ThemeNames :
                forced.buf = HighlightForced(enabled, ThemeByName(name), forced.input)

====
